---- MODULE Spec2Model ----
(***************************************************************************)
(* ai-shell (nimzi/agent-isolation): instance identity, target resolution  *)
(* and the managed-resource guard of internal/aishell.                      *)
(*                                                                         *)
(* Strings are sequences of one-character strings, so that prefixes,       *)
(* trimming, concatenation and byte-wise ordering are computed as Go       *)
(* computes them.                                                          *)
(***************************************************************************)
EXTENDS Naturals, Sequences, FiniteSets, TLC

VARIABLES
    containers,  \* runtime: container name -> container record or NoContainer
    volumes,     \* runtime: set of existing volume names
    inv,         \* the CLI invocation that just ran (Idle between invocations)
    target,      \* matchTarget: the target argument
    instances,   \* matchTarget: the instance list argument
    matched,     \* matchTarget: the returned (instance, error)
    ids,         \* uniquePrefixLen: the ids argument
    lo,          \* uniquePrefixLen: the min argument
    hi,          \* uniquePrefixLen: the max argument
    plen         \* uniquePrefixLen: the returned length

vars == <<containers, volumes, inv, target, instances, matched, ids, lo, hi, plen>>

\* The result variables before the function has been applied.
NotMatched == [kind |-> "not-called"]
NoLength == [called |-> FALSE, n |-> 0]

(***************************************************************************)
(* Strings                                                                 *)
(***************************************************************************)

\* The characters used by the model, in ascending byte order.
Ascii ==
    << " ", "-", ".", "/", "0", "1", "2", "3", "4", "5", "6", "7", "8", "9",
       "_", "a", "b", "c", "d", "e", "f", "g", "h", "i", "j", "k", "l", "m",
       "n", "o", "p", "q", "r", "s", "t", "u", "v", "w", "x", "y", "z", "~" >>

Ord(c) == CHOOSE i \in 1..Len(Ascii) : Ascii[i] = c

\* Go's s < t on strings: byte-wise lexicographic order.
StrLess(s, t) ==
    \E k \in 0..Len(s) :
        /\ k <= Len(t)
        /\ \A i \in 1..k : s[i] = t[i]
        /\ \/ k = Len(s) /\ k < Len(t)
           \/ k < Len(s) /\ k < Len(t) /\ Ord(s[k + 1]) < Ord(t[k + 1])

\* strings.HasPrefix
HasPrefix(s, p) == Len(p) <= Len(s) /\ SubSeq(s, 1, Len(p)) = p

\* strings.Contains, for a one-character needle
Contains(s, c) == \E i \in 1..Len(s) : s[i] = c

RECURSIVE TrimLeft(_)
TrimLeft(s) == IF s # <<>> /\ Head(s) = " " THEN TrimLeft(Tail(s)) ELSE s

RECURSIVE TrimRight(_)
TrimRight(s) ==
    IF s # <<>> /\ s[Len(s)] = " " THEN TrimRight(SubSeq(s, 1, Len(s) - 1)) ELSE s

\* strings.TrimSpace (the space is the model's only white-space character)
TrimSpace(s) == TrimRight(TrimLeft(s))

(***************************************************************************)
(* Filesystem fixture and path canonicalisation                            *)
(***************************************************************************)

\* The host filesystem the commands run against: directories /, /a, /b, /h,
\* a regular file /f, symbolic links /l -> /a and /a/k -> /b; every other
\* path is missing.
FsNode(p) ==
    CASE p = <<"/">>      -> [kind |-> "dir",  to |-> <<>>]
      [] p = <<"/", "a">> -> [kind |-> "dir",  to |-> <<>>]
      [] p = <<"/", "b">> -> [kind |-> "dir",  to |-> <<>>]
      [] p = <<"/", "h">> -> [kind |-> "dir",  to |-> <<>>]
      [] p = <<"/", "f">> -> [kind |-> "file", to |-> <<>>]
      [] p = <<"/", "l">> -> [kind |-> "link", to |-> <<"/", "a">>]
      [] p = <<"/", "a", "/", "k">> -> [kind |-> "link", to |-> <<"/", "b">>]
      [] OTHER            -> [kind |-> "missing", to |-> <<>>]

\* os.Getwd and os.UserHomeDir of the invoking process.
Cwd == <<"/">>
HomeDir == <<"/", "h">>

\* The non-empty segments of a path.
RECURSIVE Segments(_, _)
Segments(s, cur) ==
    IF s = <<>>
    THEN IF cur = <<>> THEN <<>> ELSE <<cur>>
    ELSE IF Head(s) = "/"
         THEN (IF cur = <<>> THEN <<>> ELSE <<cur>>) \o Segments(Tail(s), <<>>)
         ELSE Segments(Tail(s), Append(cur, Head(s)))

\* filepath.Clean on the segments of an absolute path: "." is dropped and
\* ".." removes the segment before it.
RECURSIVE CleanSegs(_, _)
CleanSegs(segs, acc) ==
    IF segs = <<>> THEN acc
    ELSE IF Head(segs) = <<".">> THEN CleanSegs(Tail(segs), acc)
    ELSE IF Head(segs) = <<".", ".">>
         THEN CleanSegs(Tail(segs),
                        IF acc = <<>> THEN acc ELSE SubSeq(acc, 1, Len(acc) - 1))
         ELSE CleanSegs(Tail(segs), Append(acc, Head(segs)))

RECURSIVE JoinSegs(_)
JoinSegs(segs) ==
    IF segs = <<>> THEN <<>> ELSE <<"/">> \o Head(segs) \o JoinSegs(Tail(segs))

AbsFromSegs(segs) == IF segs = <<>> THEN <<"/">> ELSE JoinSegs(segs)

\* expandUser: "~" and "~/..." are replaced by the home directory.
expandUser(p) ==
    IF p = <<>> THEN p
    ELSE IF p = <<"~">> THEN HomeDir
    ELSE IF HasPrefix(p, <<"~", "/">>)
         THEN AbsFromSegs(CleanSegs(Segments(HomeDir, <<>>)
                                    \o Segments(SubSeq(p, 3, Len(p)), <<>>), <<>>))
         ELSE p

\* filepath.Abs: a relative path is joined to the current directory; the
\* result is cleaned.
Abs(p) ==
    IF p # <<>> /\ Head(p) = "/"
    THEN AbsFromSegs(CleanSegs(Segments(p, <<>>), <<>>))
    ELSE AbsFromSegs(CleanSegs(Segments(Cwd, <<>>) \o Segments(p, <<>>), <<>>))

\* Mutant: the first link met is replaced by its target and the rest of the
\* path is returned as it stands.
RECURSIVE EvalWalkOneHop(_, _)
EvalWalkOneHop(cur, rest) ==
    IF rest = <<>> THEN [ok |-> TRUE, path |-> AbsFromSegs(cur)]
    ELSE LET next == AbsFromSegs(Append(cur, Head(rest)))
             node == FsNode(next)
         IN  IF node.kind = "missing" THEN [ok |-> FALSE, path |-> <<>>]
             ELSE IF node.kind = "link"
                  THEN [ok |-> TRUE,
                        path |-> AbsFromSegs(Segments(node.to, <<>>) \o Tail(rest))]
             ELSE IF node.kind = "file" /\ Tail(rest) # <<>>
                  THEN [ok |-> FALSE, path |-> <<>>]
             ELSE EvalWalkOneHop(Append(cur, Head(rest)), Tail(rest))

\* filepath.EvalSymlinks: walks the path one segment at a time, following
\* links; fails on a missing segment or on a file used as a directory.
RECURSIVE EvalWalk(_, _)
EvalWalk(cur, rest) ==
    IF rest = <<>> THEN [ok |-> TRUE, path |-> AbsFromSegs(cur)]
    ELSE LET next == AbsFromSegs(Append(cur, Head(rest)))
             node == FsNode(next)
         IN  IF node.kind = "missing" THEN [ok |-> FALSE, path |-> <<>>]
             ELSE IF node.kind = "link"
                  THEN EvalWalk(<<>>, Segments(node.to, <<>>) \o Tail(rest))
             ELSE IF node.kind = "file" /\ Tail(rest) # <<>>
                  THEN [ok |-> FALSE, path |-> <<>>]
             ELSE EvalWalk(Append(cur, Head(rest)), Tail(rest))

EvalSymlinks(abs) == EvalWalk(<<>>, Segments(abs, <<>>))

\* os.Stat: the node a path leads to, links followed.
Stat(p) ==
    LET r == EvalSymlinks(p)
    IN  IF r.ok THEN FsNode(r.path) ELSE [kind |-> "missing", to |-> <<>>]

\* Mutant: the result is not required to be a directory.
CanonicalWorkdirAnyKind(p) ==
    LET p1   == IF p = <<>> THEN Cwd ELSE p
        real == EvalSymlinks(Abs(expandUser(p1)))
    IN  IF ~real.ok THEN [ok |-> FALSE, path |-> <<>>]
        ELSE IF Stat(real.path).kind = "missing" THEN [ok |-> FALSE, path |-> <<>>]
        ELSE [ok |-> TRUE, path |-> real.path]

\* CanonicalWorkdir: [ok, path]; path is "" when ok is FALSE.
CanonicalWorkdir(p) ==
    LET p1   == IF p = <<>> THEN Cwd ELSE p
        real == EvalSymlinks(Abs(expandUser(p1)))
    IN  IF ~real.ok THEN [ok |-> FALSE, path |-> <<>>]
        ELSE IF Stat(real.path).kind # "dir" THEN [ok |-> FALSE, path |-> <<>>]
        ELSE [ok |-> TRUE, path |-> real.path]

(***************************************************************************)
(* Identity                                                                *)
(***************************************************************************)

DefaultContainerBase ==
    <<"a", "i", "-", "a", "g", "e", "n", "t", "-", "s", "h", "e", "l", "l">>
DefaultVolumeBase ==
    <<"a", "i", "_", "a", "g", "e", "n", "t", "_", "s", "h", "e", "l", "l",
      "_", "h", "o", "m", "e">>

\* InstanceID: the first 10 hex characters of sha256(workdir), tabulated for
\* the paths of the filesystem fixture.
InstanceID(workdir) ==
    CASE workdir = <<"/", "a">> -> <<"6", "a", "5", "0", "d", "c", "8", "5", "8", "4">>
      [] workdir = <<"/", "b">> -> <<"9", "8", "1", "2", "b", "0", "b", "9", "d", "6">>
      [] workdir = <<"/", "h">> -> <<"1", "4", "1", "5", "8", "2", "a", "a", "3", "7">>
      [] workdir = <<"/">>      -> <<"8", "a", "5", "e", "d", "a", "b", "2", "8", "2">>
      [] workdir = <<"/", "l">> -> <<"d", "6", "f", "f", "f", "5", "c", "c", "6", "e">>
      [] workdir = <<"/", "a", "/", "k">> -> <<"8", "2", "5", "3", "d", "f", "c", "8", "7", "f">>
      [] workdir = <<"/", "f">> -> <<"8", "4", "e", "a", "6", "f", "6", "e", "2", "0">>

\* Mutant: the two separators exchanged.
NamesForSwapped(workdir, containerBase, volumeBase) ==
    [container |-> containerBase \o <<"_">> \o InstanceID(workdir),
     volume    |-> volumeBase \o <<"-">> \o InstanceID(workdir)]

NamesFor(workdir, containerBase, volumeBase) ==
    [container |-> containerBase \o <<"-">> \o InstanceID(workdir),
     volume    |-> volumeBase \o <<"_">> \o InstanceID(workdir)]


(***************************************************************************)
(* Target resolution (selector.go)                                         *)
(***************************************************************************)

\* ManagedInstance{}: the zero value returned beside an error.
ZeroInstance ==
    [Workdir |-> <<>>, InstanceID |-> <<>>, Container |-> <<>>,
     Status |-> <<>>, Image |-> <<>>, Volume |-> <<>>]

\* filter: the elements satisfying the predicate, in list order.
filter(in, pred(_)) == SelectSeq(in, pred)

\* Mutant: every target is treated as a path.
looksLikePathAlways(s) == TRUE

looksLikePath(s) ==
    Contains(s, "/") \/ HasPrefix(s, <<".">>) \/ HasPrefix(s, <<"~">>)

\* Mutant: the keys compared in the order they are printed (iid first).
candLessIidFirst(a, b) ==
    IF a.iid # b.iid THEN StrLess(a.iid, b.iid)
    ELSE IF a.container # b.container THEN StrLess(a.container, b.container)
    ELSE StrLess(a.workdir, b.workdir)

\* The sort order of formatCandidates: container, then iid, then workdir.
candLess(a, b) ==
    IF a.container # b.container THEN StrLess(a.container, b.container)
    ELSE IF a.iid # b.iid THEN StrLess(a.iid, b.iid)
    ELSE StrLess(a.workdir, b.workdir)

RECURSIVE insertCand(_, _)
insertCand(c, sorted) ==
    IF sorted = <<>> THEN <<c>>
    ELSE IF candLess(c, Head(sorted)) THEN <<c>> \o sorted
    ELSE <<Head(sorted)>> \o insertCand(c, Tail(sorted))

\* Mutant: the candidates are printed in the order of the instance list.
sortCandsKeepOrder(cs) == cs

RECURSIVE sortCands(_)
sortCands(cs) ==
    IF cs = <<>> THEN <<>> ELSE insertCand(Head(cs), sortCands(Tail(cs)))

\* One line of formatCandidates: "  - ", the iid and two spaces when the iid
\* is not empty, the container, two spaces and the workdir when the workdir
\* is not empty.
candLine(c) ==
    <<" ", " ", "-", " ">>
    \o (IF c.iid # <<>> THEN c.iid \o <<" ", " ">> ELSE <<>>)
    \o c.container
    \o (IF c.workdir # <<>> THEN <<" ", " ">> \o c.workdir ELSE <<>>)

\* formatCandidates: the lines of the candidate list, in sorted order (the
\* code joins them with newlines).
formatCandidates(candidates) ==
    LET cs == [i \in 1..Len(candidates) |->
                 [iid       |-> candidates[i].InstanceID,
                  container |-> candidates[i].Container,
                  workdir   |-> candidates[i].Workdir]]
        sorted == sortCands(cs)
    IN  [i \in 1..Len(sorted) |-> candLine(sorted[i])]

ambiguousTargetErr(t, candidates) ==
    [kind |-> "Ambiguous", inst |-> ZeroInstance, target |-> t,
     lines |-> formatCandidates(candidates)]

\* The match lists of the five strategies for an already trimmed target.
byName(t, insts) == LET p(i) == i.Container = t IN filter(insts, p)
byID(t, insts) == LET p(i) == i.InstanceID = t IN filter(insts, p)
byIDPrefix(t, insts) ==
    LET p(i) == i.InstanceID # <<>> /\ HasPrefix(i.InstanceID, t) IN filter(insts, p)
byNamePrefix(t, insts) == LET p(i) == HasPrefix(i.Container, t) IN filter(insts, p)
\* Mutant: the target is compared as typed.
workdirKeyLiteral(t) == t

\* The string the workdir strategy compares with: the canonical target, or
\* the target itself when canonicalisation fails.
workdirKey(t) == LET wd == CanonicalWorkdir(t) IN IF wd.ok THEN wd.path ELSE t
byWorkdir(t, insts) ==
    IF looksLikePath(t)
    THEN LET p(i) == i.Workdir = workdirKey(t) IN filter(insts, p)
    ELSE <<>>

\* Mutant: the id-prefix strategy tried before the exact matches.
strategiesIDPrefixFirst(t, insts) ==
    << byIDPrefix(t, insts), byName(t, insts), byID(t, insts),
       byNamePrefix(t, insts), byWorkdir(t, insts) >>

\* The strategies in the order matchTarget tries them.
strategies(t, insts) ==
    << byName(t, insts), byID(t, insts), byIDPrefix(t, insts),
       byNamePrefix(t, insts), byWorkdir(t, insts) >>

\* The command the NotFound message tells the user to run.
ListHint == <<"a", "i", "-", "s", "h", "e", "l", "l", " ", "l", "s">>

\* Mutant: an ambiguous strategy falls through to the next one.
RECURSIVE tryStrategiesFallThrough(_, _)
tryStrategiesFallThrough(t, ms) ==
    IF ms = <<>>
    THEN [kind |-> "NotFound", inst |-> ZeroInstance, target |-> t, lines |-> <<>>,
          hint |-> ListHint]
    ELSE IF Len(Head(ms)) = 1
         THEN [kind |-> "ok", inst |-> Head(ms)[1], target |-> t, lines |-> <<>>]
    ELSE tryStrategiesFallThrough(t, Tail(ms))

RECURSIVE tryStrategies(_, _)
tryStrategies(t, ms) ==
    IF ms = <<>>
    THEN [kind |-> "NotFound", inst |-> ZeroInstance, target |-> t, lines |-> <<>>,
          hint |-> ListHint]
    ELSE IF Len(Head(ms)) = 1
         THEN [kind |-> "ok", inst |-> Head(ms)[1], target |-> t, lines |-> <<>>]
    ELSE IF Len(Head(ms)) > 1 THEN ambiguousTargetErr(t, Head(ms))
    ELSE tryStrategies(t, Tail(ms))

matchTarget(tgt, insts) ==
    LET t == TrimSpace(tgt)
    IN  IF t = <<>>
        THEN [kind |-> "InvalidTarget", inst |-> ZeroInstance, target |-> t,
              lines |-> <<>>]
        ELSE tryStrategies(t, strategies(t, insts))

(***************************************************************************)
(* uniquePrefixLen (selector.go)                                           *)
(***************************************************************************)

\* One pass of the inner loop for prefix length n: TRUE when no id is
\* shorter than n and no prefix of length n has been seen before.
RECURSIVE prefixesOK(_, _, _)
prefixesOK(rest, n, seen) ==
    IF rest = <<>> THEN TRUE
    ELSE IF Len(Head(rest)) < n THEN FALSE
    ELSE LET p == SubSeq(Head(rest), 1, n)
         IN  IF p \in seen THEN FALSE
             ELSE prefixesOK(Tail(rest), n, seen \cup {p})

\* Mutant: the loop stops before max (n < max).
RECURSIVE prefixLoopExclusive(_, _, _)
prefixLoopExclusive(idList, n, max) ==
    IF n >= max THEN 0
    ELSE IF prefixesOK(idList, n, {}) THEN n
    ELSE prefixLoopExclusive(idList, n + 1, max)

RECURSIVE prefixLoop(_, _, _)
prefixLoop(idList, n, max) ==
    IF n > max THEN 0
    ELSE IF prefixesOK(idList, n, {}) THEN n
    ELSE prefixLoop(idList, n + 1, max)

uniquePrefixLen(idList, min, max) ==
    IF min < 1 \/ max < min THEN 0 ELSE prefixLoop(idList, min, max)


(***************************************************************************)
(* Container runtime (docker.go) as seen through the adapter               *)
(***************************************************************************)

LabelTrue == <<"t", "r", "u", "e">>
WorkMount == <<"/", "w", "o", "r", "k">>
RootMount == <<"/", "r", "o", "o", "t">>
StatusRunning == <<"r", "u", "n", "n", "i", "n", "g">>
StatusExited == <<"e", "x", "i", "t", "e", "d">>
DefaultImage == DefaultContainerBase

\* Config.Labels of an inspected container: nil is TRUE for a null map; a
\* key that is absent reads as "" like a Go map lookup.
NilLabels ==
    [nil |-> TRUE, managed |-> <<>>, instance |-> <<>>, volume |-> <<>>,
     workdir |-> <<>>]

\* A name with no container behind it.
NoContainer ==
    [exists |-> FALSE, labels |-> NilLabels, mounts |-> <<>>, running |-> FALSE,
     image |-> <<>>]

BindMount(src, dst) == [Type |-> "bind", Source |-> src, Destination |-> dst]
VolumeMount(vol, dst) == [Type |-> "volume", Source |-> vol, Destination |-> dst]

\* InspectContainer.Workdir: the source of the first bind mount at /work,
\* "" when there is none.
RECURSIVE Workdir(_)
Workdir(mounts) ==
    IF mounts = <<>> THEN <<>>
    ELSE IF Head(mounts).Destination = WorkMount /\ Head(mounts).Type = "bind"
         THEN Head(mounts).Source
         ELSE Workdir(Tail(mounts))

\* Docker.InspectContainer: fails when the container does not exist or the
\* runtime does not answer for it.
InspectContainer(cs, name, fault) ==
    IF ~cs[name].exists \/ fault = [op |-> "inspect", name |-> name]
    THEN [err |-> TRUE, info |-> NoContainer]
    ELSE [err |-> FALSE, info |-> cs[name]]

ContainerExists(cs, name) == cs[name].exists
ContainerRunning(cs, name) == cs[name].exists /\ cs[name].running

\* The world an invocation acts on: the containers, the volumes and the log
\* of the runtime calls it has issued.
Logged(w, op, arg, res) ==
    [w EXCEPT !.calls = Append(@, [op |-> op, arg |-> arg, res |-> res])]

MutateFails(fault) == fault = [op |-> "mutate", name |-> <<>>]

\* Docker.Start: [w, err]
Start(w, name, fault) ==
    LET ok == w.c[name].exists /\ ~MutateFails(fault)
        w1 == IF ok THEN [w EXCEPT !.c[name].running = TRUE] ELSE w
    IN  [w |-> Logged(w1, "Start", name, IF ok THEN "ok" ELSE "error"), err |-> ~ok]

\* Docker.Stop: [w, err]
Stop(w, name, fault) ==
    LET ok == w.c[name].exists /\ ~MutateFails(fault)
        w1 == IF ok THEN [w EXCEPT !.c[name].running = FALSE] ELSE w
    IN  [w |-> Logged(w1, "Stop", name, IF ok THEN "ok" ELSE "error"), err |-> ~ok]

\* Docker.Remove ("rm" without force): refused for a running container.
Remove(w, name, fault) ==
    LET ok == w.c[name].exists /\ ~w.c[name].running /\ ~MutateFails(fault)
        w1 == IF ok THEN [w EXCEPT !.c[name] = NoContainer] ELSE w
    IN  [w |-> Logged(w1, "Remove", name, IF ok THEN "ok" ELSE "error"), err |-> ~ok]

VolumeInUse(cs, vol) ==
    \E n \in DOMAIN cs :
        cs[n].exists /\ \E i \in 1..Len(cs[n].mounts) :
            cs[n].mounts[i].Type = "volume" /\ cs[n].mounts[i].Source = vol

\* Docker.RemoveVolume: refused for a missing volume or one still mounted.
RemoveVolume(w, vol, fault) ==
    LET ok == vol \in w.v /\ ~VolumeInUse(w.c, vol) /\ ~MutateFails(fault)
        w1 == IF ok THEN [w EXCEPT !.v = @ \ {vol}] ELSE w
    IN  [w |-> Logged(w1, "RemoveVolume", vol, IF ok THEN "ok" ELSE "error"),
         err |-> ~ok]

\* Docker.RemoveImage (images are not part of the state).
RemoveImage(w, img, fault) ==
    [w |-> Logged(w, "RemoveImage", img, "ok"), err |-> FALSE]

\* Exec / ExecCapture / ExecTty / execReplace inside a container.
Exec(w, name) == Logged(w, "Exec", name, "ok")

\* sort.Strings on a set of names.
RECURSIVE SortStrings(_)
SortStrings(S) ==
    IF S = {} THEN <<>>
    ELSE LET m == CHOOSE x \in S : \A y \in S \ {x} : StrLess(x, y)
         IN  <<m>> \o SortStrings(S \ {m})

\* Docker.PSNamesByLabel(LabelManaged, "true"), sorted by the caller.
PSNamesByLabel(cs) ==
    SortStrings({n \in DOMAIN cs :
                    cs[n].exists /\ ~cs[n].labels.nil
                    /\ cs[n].labels.managed = LabelTrue})

\* buildLabels: the labels `up` gives a container it creates.
buildLabels(instanceID, volumeName) ==
    [nil |-> FALSE, managed |-> LabelTrue, instance |-> instanceID,
     volume |-> volumeName, workdir |-> <<>>]

\* Docker.RunDetached with the arguments newUpCmd passes: a running
\* container with the labels, the workdir bound at /work and the volume at
\* /root; the runtime creates the named volume when it is missing.
\* Mutant: the two mount points exchanged (volume at /work, workdir at /root).
RunDetachedMountsSwapped(w, name, iid, workdir, volume, fault) ==
    LET ok == ~w.c[name].exists /\ ~MutateFails(fault)
        w1 == IF ok
              THEN [w EXCEPT
                      !.c[name] = [exists |-> TRUE,
                                   labels |-> buildLabels(iid, volume),
                                   mounts |-> << BindMount(workdir, RootMount),
                                                 VolumeMount(volume, WorkMount) >>,
                                   running |-> TRUE,
                                   image |-> DefaultImage],
                      !.v = @ \cup {volume}]
              ELSE w
    IN  [w |-> Logged(w1, "Run", name, IF ok THEN "ok" ELSE "error"), err |-> ~ok]

RunDetached(w, name, iid, workdir, volume, fault) ==
    LET ok == ~w.c[name].exists /\ ~MutateFails(fault)
        w1 == IF ok
              THEN [w EXCEPT
                      !.c[name] = [exists |-> TRUE,
                                   labels |-> buildLabels(iid, volume),
                                   mounts |-> << BindMount(workdir, WorkMount),
                                                 VolumeMount(volume, RootMount) >>,
                                   running |-> TRUE,
                                   image |-> DefaultImage],
                      !.v = @ \cup {volume}]
              ELSE w
    IN  [w |-> Logged(w1, "Run", name, IF ok THEN "ok" ELSE "error"), err |-> ~ok]

(***************************************************************************)
(* The ownership guard and the instance lister                             *)
(***************************************************************************)

\* Mutant: the expected workdir is compared with a workdir label.
requireManagedByLabel(insp, container, expectedWorkdir) ==
    IF insp.err
    THEN [kind |-> "InspectFailed", container |-> container,
          expected |-> <<>>, found |-> <<>>]
    ELSE IF insp.info.labels.nil \/ insp.info.labels.managed # LabelTrue
    THEN [kind |-> "NotManaged", container |-> container,
          expected |-> <<>>, found |-> <<>>]
    ELSE IF insp.info.labels.workdir # expectedWorkdir
    THEN [kind |-> "WorkdirMismatch", container |-> container,
          expected |-> expectedWorkdir, found |-> insp.info.labels.workdir]
    ELSE [kind |-> "ok", container |-> container, expected |-> <<>>, found |-> <<>>]

\* Mutant: any non-empty managed label counts as managed.
requireManagedAnyValue(insp, container, expectedWorkdir) ==
    IF insp.err
    THEN [kind |-> "InspectFailed", container |-> container,
          expected |-> <<>>, found |-> <<>>]
    ELSE IF insp.info.labels.nil \/ insp.info.labels.managed = <<>>
    THEN [kind |-> "NotManaged", container |-> container,
          expected |-> <<>>, found |-> <<>>]
    ELSE IF Workdir(insp.info.mounts) # expectedWorkdir
    THEN [kind |-> "WorkdirMismatch", container |-> container,
          expected |-> expectedWorkdir, found |-> Workdir(insp.info.mounts)]
    ELSE [kind |-> "ok", container |-> container, expected |-> <<>>, found |-> <<>>]

\* Mutant: the workdir is not compared.
requireManagedLabelOnly(insp, container, expectedWorkdir) ==
    IF insp.err
    THEN [kind |-> "InspectFailed", container |-> container,
          expected |-> <<>>, found |-> <<>>]
    ELSE IF insp.info.labels.nil \/ insp.info.labels.managed # LabelTrue
    THEN [kind |-> "NotManaged", container |-> container,
          expected |-> <<>>, found |-> <<>>]
    ELSE [kind |-> "ok", container |-> container, expected |-> <<>>, found |-> <<>>]

\* requireManaged on the result of d.InspectContainer(container): the error
\* it returns ("ok" for nil), with the workdirs the mismatch message prints.
requireManaged(insp, container, expectedWorkdir) ==
    IF insp.err
    THEN [kind |-> "InspectFailed", container |-> container,
          expected |-> <<>>, found |-> <<>>]
    ELSE IF insp.info.labels.nil \/ insp.info.labels.managed # LabelTrue
    THEN [kind |-> "NotManaged", container |-> container,
          expected |-> <<>>, found |-> <<>>]
    ELSE IF Workdir(insp.info.mounts) # expectedWorkdir
    THEN [kind |-> "WorkdirMismatch", container |-> container,
          expected |-> expectedWorkdir, found |-> Workdir(insp.info.mounts)]
    ELSE [kind |-> "ok", container |-> container, expected |-> <<>>, found |-> <<>>]

\* The guard as a step of an invocation: the inspection and the verdict are
\* kept in the log.
Guard(w, container, expectedWorkdir, fault) ==
    LET insp == InspectContainer(w.c, container, fault)
        g    == requireManaged(insp, container, expectedWorkdir)
    IN  [w |-> [w EXCEPT !.calls =
                   Append(@, [op |-> "requireManaged", arg |-> container,
                              res |-> g.kind]),
                         !.guard = [called |-> TRUE, insp |-> insp,
                                    expectedArg |-> expectedWorkdir, result |-> g]],
         err |-> g.kind # "ok", kind |-> g.kind]

\* Mutant: a container whose inspection fails is listed with empty fields.
RECURSIVE instancesOfKeepFailed(_, _, _)
instancesOfKeepFailed(cs, names, fault) ==
    IF names = <<>> THEN <<>>
    ELSE LET insp == InspectContainer(cs, Head(names), fault)
         IN  << [Workdir    |-> Workdir(insp.info.mounts),
                 InstanceID |-> insp.info.labels.instance,
                 Container  |-> Head(names),
                 Status     |-> IF insp.info.running THEN StatusRunning
                                ELSE StatusExited,
                 Image      |-> insp.info.image,
                 Volume     |-> insp.info.labels.volume] >>
             \o instancesOfKeepFailed(cs, Tail(names), fault)

\* listManagedInstances: one record per labelled container whose inspection
\* succeeds, in name order.
RECURSIVE instancesOf(_, _, _)
instancesOf(cs, names, fault) ==
    IF names = <<>> THEN <<>>
    ELSE LET insp == InspectContainer(cs, Head(names), fault)
         IN  (IF insp.err THEN <<>>
              ELSE << [Workdir    |-> Workdir(insp.info.mounts),
                       InstanceID |-> IF insp.info.labels.nil THEN <<>>
                                      ELSE insp.info.labels.instance,
                       Container  |-> Head(names),
                       Status     |-> IF insp.info.running THEN StatusRunning
                                      ELSE StatusExited,
                       Image      |-> insp.info.image,
                       Volume     |-> IF insp.info.labels.nil THEN <<>>
                                      ELSE insp.info.labels.volume] >>)
             \o instancesOf(cs, Tail(names), fault)

\* The label query itself fails.
PsFails(fault) == fault = [op |-> "ps", name |-> <<>>]

\* Mutant: the listing is the one of a runtime without containers, as held
\* from an earlier moment, whatever the runtime holds now.
listManagedInstancesCached(cs, fault) ==
    IF PsFails(fault) THEN [err |-> TRUE, insts |-> <<>>]
    ELSE [err |-> FALSE, insts |-> <<>>]

listManagedInstances(cs, fault) ==
    IF PsFails(fault) THEN [err |-> TRUE, insts |-> <<>>]
    ELSE [err |-> FALSE, insts |-> instancesOf(cs, PSNamesByLabel(cs), fault)]

\* Mutant: the instances are listed before the target is looked at.
resolveTargetListFirst(cs, tgt, fault) ==
    LET t == TrimSpace(tgt)
        l == listManagedInstances(cs, fault)
    IN  IF l.err
        THEN [kind |-> "ListFailed", inst |-> ZeroInstance, target |-> t,
              lines |-> <<>>]
        ELSE IF Len(l.insts) = 0
        THEN [kind |-> "NoManagedContainers", inst |-> ZeroInstance,
              target |-> t, lines |-> <<>>]
        ELSE matchTarget(t, l.insts)

\* resolveTarget: the matchTarget result, or the errors decided before it.
\* Mutant: an empty instance list is handed to matchTarget like any other.
resolveTargetMatchEmpty(cs, tgt, fault) ==
    LET t == TrimSpace(tgt)
    IN  IF t = <<>>
        THEN [kind |-> "InvalidTarget", inst |-> ZeroInstance, target |-> t,
              lines |-> <<>>]
        ELSE LET l == listManagedInstances(cs, fault)
             IN  IF l.err
                 THEN [kind |-> "ListFailed", inst |-> ZeroInstance,
                       target |-> t, lines |-> <<>>]
                 ELSE matchTarget(t, l.insts)

resolveTarget(cs, tgt, fault) ==
    LET t == TrimSpace(tgt)
    IN  IF t = <<>>
        THEN [kind |-> "InvalidTarget", inst |-> ZeroInstance, target |-> t,
              lines |-> <<>>]
        ELSE LET l == listManagedInstances(cs, fault)
             IN  IF l.err
                 THEN [kind |-> "ListFailed", inst |-> ZeroInstance,
                       target |-> t, lines |-> <<>>]
                 ELSE IF Len(l.insts) = 0
                 THEN [kind |-> "NoManagedContainers", inst |-> ZeroInstance,
                       target |-> t, lines |-> <<>>]
                 ELSE matchTarget(t, l.insts)

(***************************************************************************)
(* Commands (cli.go): each operator is one RunE handler, from the world    *)
(* before the invocation to the world after it and the error returned      *)
(***************************************************************************)

NoGuard ==
    [called |-> FALSE, insp |-> [err |-> FALSE, info |-> NoContainer],
     expectedArg |-> <<>>,
     result |-> [kind |-> "none", container |-> <<>>, expected |-> <<>>,
                 found |-> <<>>]]

\* The outcome of a handler.
Outcome(w, err, container, workdir) ==
    [w |-> w, err |-> err, container |-> container, workdir |-> workdir]

\* firstNonEmpty of an override and a default: the override unless it is
\* blank.
firstNonEmpty(a, b) == IF TrimSpace(a) # <<>> THEN a ELSE b

\* resolveBases with the environment variables unset.
resolveBases(cfg) ==
    [containerBase |-> firstNonEmpty(cfg.ContainerBase, DefaultContainerBase),
     image         |-> DefaultImage,
     volumeBase    |-> firstNonEmpty(cfg.VolumeBase, DefaultVolumeBase)]

\* The configuration of an invocation that overrides no base.
Config(wdArg) == [Workdir |-> wdArg, ContainerBase |-> <<>>, VolumeBase |-> <<>>]

\* resolveInstance: the bases, the canonical workdir, then the names.
resolveInstanceCfg(cfg) ==
    LET bases == resolveBases(cfg)
        wd == CanonicalWorkdir(cfg.Workdir)
    IN  IF ~wd.ok
        THEN [err |-> TRUE, workdir |-> <<>>, instanceID |-> <<>>,
              container |-> <<>>, image |-> <<>>, volume |-> <<>>]
        ELSE LET names == NamesFor(wd.path, bases.containerBase, bases.volumeBase)
             IN  [err |-> FALSE, workdir |-> wd.path,
                  instanceID |-> InstanceID(wd.path),
                  container |-> names.container, image |-> bases.image,
                  volume |-> names.volume]

resolveInstance(wdArg) == resolveInstanceCfg(Config(wdArg))

\* A handler is a sequence of steps, each on the result of the one before:
\* Then(v, F) is F applied to the value of v.
Then(v, F(_)) == CHOOSE r \in {F(x) : x \in {v}} : TRUE

\* The world once resolveTarget has answered r.
Resolved(w, r) == [w EXCEPT !.resolved = r]

\* The window of a TARGET-form command between its listing and its next
\* runtime call: under the fault "replace" another process removes the named
\* container there and runs one without labels under the same name.
Between(w, name, fault) ==
    IF fault.op = "replace" /\ fault.name = name
    THEN [w EXCEPT !.c[name] = [exists |-> TRUE, running |-> TRUE,
                                image |-> DefaultImage, labels |-> NilLabels,
                                mounts |-> <<>>]]
    ELSE w

\* Mutant: the guard's refusal is not returned.
selectContainerWarnOnly(w, form, arg, fault) ==
    IF form = "target"
    THEN Then(resolveTarget(w.c, arg, fault), LAMBDA r :
           IF r.kind # "ok" THEN Outcome(Resolved(w, r), r.kind, <<>>, <<>>)
           ELSE Outcome(Between(Resolved(w, r), r.inst.Container, fault), "none",
                        r.inst.Container, r.inst.Workdir))
    ELSE Then(resolveInstance(arg), LAMBDA ri :
           IF ri.err THEN Outcome(w, "WorkdirError", <<>>, <<>>)
           ELSE IF ~ContainerExists(w.c, ri.container)
                THEN Outcome(w, "ContainerNotFound", ri.container, ri.workdir)
           ELSE Then(Guard(w, ri.container, ri.workdir, fault), LAMBDA g :
                  Outcome(g.w, "none", ri.container, ri.workdir)))

\* The head shared by start, stop, enter and check: with a TARGET the
\* container comes from resolveTarget; without one it is derived from the
\* workdir, must exist and must pass requireManaged.
selectContainer(w, form, arg, fault) ==
    IF form = "target"
    THEN Then(resolveTarget(w.c, arg, fault), LAMBDA r :
           IF r.kind # "ok" THEN Outcome(Resolved(w, r), r.kind, <<>>, <<>>)
           ELSE Outcome(Between(Resolved(w, r), r.inst.Container, fault), "none",
                        r.inst.Container, r.inst.Workdir))
    ELSE Then(resolveInstance(arg), LAMBDA ri :
           IF ri.err THEN Outcome(w, "WorkdirError", <<>>, <<>>)
           ELSE IF ~ContainerExists(w.c, ri.container)
                THEN Outcome(w, "ContainerNotFound", ri.container, ri.workdir)
           ELSE Then(Guard(w, ri.container, ri.workdir, fault), LAMBDA g :
                  Outcome(g.w, IF g.err THEN g.kind ELSE "none",
                          ri.container, ri.workdir)))

\* d.Stop then d.Remove with both errors discarded.
stopAndRemove(w, container, fault) ==
    Then(Stop(w, container, fault), LAMBDA a : Remove(a.w, container, fault).w)

\* bootstrapTools and the SSH setup of `up`: two runs inside the container.
execTwice(w, container) ==
    Then(Exec(w, container), LAMBDA a : Exec(a, container))

\* Mutant: Start is issued whether or not the container runs.
cmdStartAlways(w, form, arg, fault) ==
    Then(selectContainer(w, form, arg, fault), LAMBDA s :
      IF s.err # "none" THEN s
      ELSE Then(Start(s.w, s.container, fault), LAMBDA r :
             Outcome(r.w, IF r.err THEN "StartFailed" ELSE "none",
                     s.container, s.workdir)))

\* newStartCmd
cmdStart(w, form, arg, fault) ==
    Then(selectContainer(w, form, arg, fault), LAMBDA s :
      IF s.err # "none" THEN s
      ELSE IF ContainerRunning(s.w.c, s.container) THEN s
      ELSE Then(Start(s.w, s.container, fault), LAMBDA r :
             Outcome(r.w, IF r.err THEN "StartFailed" ELSE "none",
                     s.container, s.workdir)))

\* newStopCmd
cmdStop(w, form, arg, fault) ==
    Then(selectContainer(w, form, arg, fault), LAMBDA s :
      IF s.err # "none" THEN s
      ELSE IF ~ContainerRunning(s.w.c, s.container) THEN s
      ELSE Then(Stop(s.w, s.container, fault), LAMBDA r :
             Outcome(r.w, IF r.err THEN "StopFailed" ELSE "none",
                     s.container, s.workdir)))

\* newEnterCmd: start when needed, fix up .bashrc, then exec the shell.
cmdEnter(w, form, arg, fault) ==
    Then(selectContainer(w, form, arg, fault), LAMBDA s :
      IF s.err # "none" THEN s
      ELSE Then(IF ContainerRunning(s.w.c, s.container)
                THEN [w |-> s.w, err |-> FALSE]
                ELSE Start(s.w, s.container, fault), LAMBDA r :
             IF r.err THEN Outcome(r.w, "StartFailed", s.container, s.workdir)
             ELSE Outcome(execTwice(r.w, s.container), "none",
                          s.container, s.workdir)))

\* newCheckCmd: refuses a stopped container, then runs its three probes.
cmdCheck(w, form, arg, fault) ==
    Then(selectContainer(w, form, arg, fault), LAMBDA s :
      IF s.err # "none" THEN s
      ELSE IF ~ContainerRunning(s.w.c, s.container)
           THEN Outcome(s.w, "NotRunning", s.container, s.workdir)
      ELSE Outcome(Exec(execTwice(s.w, s.container), s.container), "none",
                   s.container, s.workdir))

\* newStatusCmd: read-only; without a TARGET an existing container must pass
\* requireManaged before its mounts are printed.
cmdStatus(w, form, arg, fault) ==
    IF form = "target"
    THEN Then(resolveTarget(w.c, arg, fault), LAMBDA r :
           IF r.kind # "ok" THEN Outcome(Resolved(w, r), r.kind, <<>>, <<>>)
           ELSE Outcome(Between(Resolved(w, r), r.inst.Container, fault), "none",
                        r.inst.Container, r.inst.Workdir))
    ELSE Then(resolveInstance(arg), LAMBDA ri :
           IF ri.err THEN Outcome(w, "WorkdirError", <<>>, <<>>)
           ELSE IF ~ContainerExists(w.c, ri.container)
                THEN Outcome(w, "none", ri.container, ri.workdir)
           ELSE Then(Guard(w, ri.container, ri.workdir, fault), LAMBDA g :
                  Outcome(g.w, IF g.err THEN g.kind ELSE "none",
                          ri.container, ri.workdir)))

\* The branch of `up` for a container that does not exist: run it, then
\* bootstrap it.
upCreate(w, ri, fault) ==
    Then(RunDetached(w, ri.container, ri.instanceID, ri.workdir, ri.volume, fault),
         LAMBDA r :
           IF r.err THEN Outcome(r.w, "RunFailed", ri.container, ri.workdir)
           ELSE Outcome(execTwice(r.w, ri.container), "none",
                        ri.container, ri.workdir))

\* The branch of `up` for a container that exists: requireManaged, start it
\* when stopped, bootstrap it.
upReuse(w, ri, fault) ==
    Then(Guard(w, ri.container, ri.workdir, fault), LAMBDA g :
      IF g.err THEN Outcome(g.w, g.kind, ri.container, ri.workdir)
      ELSE Then(IF ContainerRunning(g.w.c, ri.container)
                THEN [w |-> g.w, err |-> FALSE]
                ELSE Start(g.w, ri.container, fault), LAMBDA r :
             IF r.err THEN Outcome(r.w, "StartFailed", ri.container, ri.workdir)
             ELSE Outcome(execTwice(r.w, ri.container), "none",
                          ri.container, ri.workdir)))

\* newUpCmd (up, up --recreate, recreate): with recreate an existing
\* container is stopped and removed first; the image is built; then the
\* container is created or reused.
cmdUp(w, wdArg, recreate, fault) ==
    Then(resolveInstance(wdArg), LAMBDA ri :
      IF ri.err THEN Outcome(w, "WorkdirError", <<>>, <<>>)
      ELSE Then(IF recreate /\ ContainerExists(w.c, ri.container)
                THEN stopAndRemove(w, ri.container, fault)
                ELSE w, LAMBDA w1 :
           Then(Logged(w1, "Build", ri.image, "ok"), LAMBDA w2 :
             IF ~ContainerExists(w2.c, ri.container)
             THEN upCreate(w2, ri, fault)
             ELSE upReuse(w2, ri, fault))))

\* Mutant: the container derived from the workdir is removed unguarded.
cmdRmWorkdirUnguarded(w, wdArg, removeVolume, fault) ==
    Then(resolveInstance(wdArg), LAMBDA ri :
      IF ri.err THEN Outcome(w, "WorkdirError", <<>>, <<>>)
      ELSE IF ~ContainerExists(w.c, ri.container)
           THEN Outcome(w, "none", ri.container, ri.workdir)
      ELSE Then(stopAndRemove(w, ri.container, fault), LAMBDA w1 :
             Outcome(IF removeVolume THEN RemoveVolume(w1, ri.volume, fault).w
                     ELSE w1,
                     "none", ri.container, ri.workdir)))

\* Mutant: with --volume the derived volume is removed also when no
\* container is found.
cmdRmWorkdirVolumeAnyway(w, wdArg, removeVolume, fault) ==
    Then(resolveInstance(wdArg), LAMBDA ri :
      IF ri.err THEN Outcome(w, "WorkdirError", <<>>, <<>>)
      ELSE IF ~ContainerExists(w.c, ri.container)
           THEN Outcome(IF removeVolume THEN RemoveVolume(w, ri.volume, fault).w
                        ELSE w,
                        "none", ri.container, ri.workdir)
      ELSE Then(Guard(w, ri.container, ri.workdir, fault), LAMBDA g :
             IF g.err THEN Outcome(g.w, g.kind, ri.container, ri.workdir)
             ELSE Then(stopAndRemove(g.w, ri.container, fault), LAMBDA w1 :
                    Outcome(IF removeVolume
                            THEN RemoveVolume(w1, ri.volume, fault).w
                            ELSE w1,
                            "none", ri.container, ri.workdir))))

\* newRmCmd, default form: rm the instance derived from --workdir.
cmdRmWorkdir(w, wdArg, removeVolume, fault) ==
    Then(resolveInstance(wdArg), LAMBDA ri :
      IF ri.err THEN Outcome(w, "WorkdirError", <<>>, <<>>)
      ELSE IF ~ContainerExists(w.c, ri.container)
           THEN Outcome(w, "none", ri.container, ri.workdir)
      ELSE Then(Guard(w, ri.container, ri.workdir, fault), LAMBDA g :
             IF g.err THEN Outcome(g.w, g.kind, ri.container, ri.workdir)
             ELSE Then(stopAndRemove(g.w, ri.container, fault), LAMBDA w1 :
                    Outcome(IF removeVolume
                            THEN RemoveVolume(w1, ri.volume, fault).w
                            ELSE w1,
                            "none", ri.container, ri.workdir))))

\* newRmCmd, TARGET form: the container (and with --volume the volume named
\* by its label) of the resolved instance.
\* Mutant: `rm TARGET` puts the resolved container through requireManaged
\* before it stops and removes it.
cmdRmTargetGuarded(w, tgt, removeVolume, fault) ==
    Then(resolveTarget(w.c, tgt, fault), LAMBDA r :
      IF r.kind # "ok" THEN Outcome(Resolved(w, r), r.kind, <<>>, <<>>)
      ELSE Then(Guard(Between(Resolved(w, r), r.inst.Container, fault),
                      r.inst.Container, r.inst.Workdir, fault), LAMBDA g :
        IF g.err THEN Outcome(g.w, g.kind, r.inst.Container, r.inst.Workdir)
        ELSE Then(stopAndRemove(g.w, r.inst.Container, fault), LAMBDA w1 :
             IF ~removeVolume
             THEN Outcome(w1, "none", r.inst.Container, r.inst.Workdir)
             ELSE IF TrimSpace(r.inst.Volume) = <<>>
                  THEN Outcome(w1, "MissingVolumeLabel", r.inst.Container,
                               r.inst.Workdir)
             ELSE Outcome(RemoveVolume(w1, r.inst.Volume, fault).w, "none",
                          r.inst.Container, r.inst.Workdir))))

\* Mutant: with --volume the volume label is looked at before the container
\* is stopped and removed.
cmdRmTargetLabelFirst(w, tgt, removeVolume, fault) ==
    Then(resolveTarget(w.c, tgt, fault), LAMBDA r :
      IF r.kind # "ok" THEN Outcome(Resolved(w, r), r.kind, <<>>, <<>>)
      ELSE IF removeVolume /\ TrimSpace(r.inst.Volume) = <<>>
           THEN Outcome(Resolved(w, r), "MissingVolumeLabel", r.inst.Container,
                        r.inst.Workdir)
      ELSE Then(stopAndRemove(Between(Resolved(w, r), r.inst.Container, fault),
                              r.inst.Container, fault), LAMBDA w1 :
             IF ~removeVolume
             THEN Outcome(w1, "none", r.inst.Container, r.inst.Workdir)
             ELSE Outcome(RemoveVolume(w1, r.inst.Volume, fault).w, "none",
                          r.inst.Container, r.inst.Workdir)))

cmdRmTarget(w, tgt, removeVolume, fault) ==
    Then(resolveTarget(w.c, tgt, fault), LAMBDA r :
      IF r.kind # "ok" THEN Outcome(Resolved(w, r), r.kind, <<>>, <<>>)
      ELSE Then(stopAndRemove(Between(Resolved(w, r), r.inst.Container, fault),
                              r.inst.Container, fault), LAMBDA w1 :
             IF ~removeVolume
             THEN Outcome(w1, "none", r.inst.Container, r.inst.Workdir)
             ELSE IF TrimSpace(r.inst.Volume) = <<>>
                  THEN Outcome(w1, "MissingVolumeLabel", r.inst.Container,
                               r.inst.Workdir)
             ELSE Outcome(RemoveVolume(w1, r.inst.Volume, fault).w, "none",
                          r.inst.Container, r.inst.Workdir)))

NoIdentity ==
    [called |-> FALSE, err |-> FALSE, workdir |-> <<>>, iid |-> <<>>,
     container |-> <<>>, volume |-> <<>>]

\* newInstanceCmd: prints the identity derived for the workdir; no runtime
\* call is made.
cmdInstance(w, cfg) ==
    Then(resolveInstanceCfg(cfg), LAMBDA ri :
      Outcome([w EXCEPT !.identity =
                 [called |-> TRUE, err |-> ri.err, workdir |-> ri.workdir,
                  iid |-> ri.instanceID, container |-> ri.container,
                  volume |-> ri.volume]],
              IF ri.err THEN "WorkdirError" ELSE "none",
              ri.container, ri.workdir))

\* The ids `ls` hands to uniquePrefixLen: the non-empty instance ids.
RECURSIVE nonEmptyIds(_)
nonEmptyIds(insts) ==
    IF insts = <<>> THEN <<>>
    ELSE (IF Head(insts).InstanceID # <<>> THEN <<Head(insts).InstanceID>> ELSE <<>>)
         \o nonEmptyIds(Tail(insts))

ShortMin == 4
ShortMax == 10
NoShort == <<"?", "?", "?", "?", "?", "?", "?", "?", "?", "?">>

\* Mutant: SHORT is always the shortest prefix `ls` may print.
lsRowShortest(inst, shortLen) ==
    [workdir   |-> inst.Workdir,
     short     |-> IF shortLen > 0 /\ Len(inst.InstanceID) >= shortLen
                   THEN SubSeq(inst.InstanceID, 1, ShortMin)
                   ELSE NoShort,
     iid       |-> inst.InstanceID,
     container |-> inst.Container,
     status    |-> inst.Status]

\* One row of the table `ls` prints.
lsRow(inst, shortLen) ==
    [workdir   |-> inst.Workdir,
     short     |-> IF shortLen > 0 /\ Len(inst.InstanceID) >= shortLen
                   THEN SubSeq(inst.InstanceID, 1, shortLen)
                   ELSE NoShort,
     iid       |-> inst.InstanceID,
     container |-> inst.Container,
     status    |-> inst.Status]

NotListed == [called |-> FALSE, err |-> FALSE, insts |-> <<>>, rows |-> <<>>]

\* newLsCmd: the listing and the rows printed for it.
cmdLs(w, fault) ==
    Then(listManagedInstances(w.c, fault), LAMBDA l :
      IF l.err
      THEN Outcome([w EXCEPT !.listed = [called |-> TRUE, err |-> TRUE,
                                         insts |-> <<>>, rows |-> <<>>]],
                   "ListFailed", <<>>, <<>>)
      ELSE Then(uniquePrefixLen(nonEmptyIds(l.insts), ShortMin, ShortMax),
                LAMBDA shortLen :
             Outcome([w EXCEPT !.listed =
                        [called |-> TRUE, err |-> FALSE, insts |-> l.insts,
                         rows |-> [k \in 1..Len(l.insts) |->
                                     lsRow(l.insts[k], shortLen)]]],
                     "none", <<>>, <<>>)))

RECURSIVE stopAll(_, _, _)
stopAll(w, names, fault) ==
    IF names = <<>> THEN w
    ELSE stopAll(Stop(w, Head(names), fault).w, Tail(names), fault)

RECURSIVE removeAll(_, _, _)
removeAll(w, names, fault) ==
    IF names = <<>> THEN w
    ELSE removeAll(Remove(w, Head(names), fault).w, Tail(names), fault)

RECURSIVE removeVolumes(_, _, _)
removeVolumes(w, vols, fault) ==
    IF vols = <<>> THEN w
    ELSE removeVolumes(RemoveVolume(w, Head(vols), fault).w, Tail(vols), fault)

RECURSIVE removeImages(_, _, _)
removeImages(w, imgs, fault) ==
    IF imgs = <<>> THEN w
    ELSE removeImages(RemoveImage(w, Head(imgs), fault).w, Tail(imgs), fault)

\* The volumes --nuke deletes: the trimmed volume label of every labelled
\* container whose inspection succeeds, and every existing volume whose name
\* starts with the default volume base and "_".
nukeVolumes(w, names, fault) ==
    LET labelled ==
            {TrimSpace(InspectContainer(w.c, names[i], fault).info.labels.volume) :
               i \in {j \in 1..Len(names) :
                        ~InspectContainer(w.c, names[j], fault).err}} \ {<<>>}
        orphans == {v \in w.v : HasPrefix(v, DefaultVolumeBase \o <<"_">>)}
    IN  SortStrings(labelled \cup orphans)

nukeImages(w, names, fault) ==
    SortStrings({TrimSpace(InspectContainer(w.c, names[i], fault).info.image) :
                   i \in {j \in 1..Len(names) :
                            ~InspectContainer(w.c, names[j], fault).err}} \ {<<>>})

\* The deletions of --nuke, every error of which is only a warning.
nukeDelete(w, names, vols, images, fault) ==
    Then(stopAll(w, names, fault), LAMBDA w1 :
      Then(removeAll(w1, names, fault), LAMBDA w2 :
        Then(removeVolumes(w2, vols, fault), LAMBDA w3 :
          removeImages(w3, images, fault))))

\* Mutant: the deletions are carried out without --yes and without the
\* prompt.
cmdRmNukeUnconfirmed(w, conflict, yes, tty, line, fault) ==
    IF conflict # "none" THEN Outcome(w, "NukeConflict", <<>>, <<>>)
    ELSE IF PsFails(fault) THEN Outcome(w, "ListFailed", <<>>, <<>>)
    ELSE
    Then(PSNamesByLabel(w.c), LAMBDA names :
      Then(nukeVolumes(w, names, fault), LAMBDA vols :
        Then(nukeImages(w, names, fault), LAMBDA images :
          IF Len(names) = 0 /\ Len(vols) = 0 /\ Len(images) = 0
          THEN Outcome(w, "none", <<>>, <<>>)
          ELSE Outcome(nukeDelete(w, names, vols, images, fault), "none",
                       <<>>, <<>>))))

\* newRmCmd, --nuke: conflict is the flag or argument given beside --nuke
\* ("none" when there is none); line is what the user types at the prompt.
cmdRmNuke(w, conflict, yes, tty, line, fault) ==
    IF conflict # "none" THEN Outcome(w, "NukeConflict", <<>>, <<>>)
    ELSE IF PsFails(fault) THEN Outcome(w, "ListFailed", <<>>, <<>>)
    ELSE
    Then(PSNamesByLabel(w.c), LAMBDA names :
      Then(nukeVolumes(w, names, fault), LAMBDA vols :
        Then(nukeImages(w, names, fault), LAMBDA images :
          IF Len(names) = 0 /\ Len(vols) = 0 /\ Len(images) = 0
          THEN Outcome(w, "none", <<>>, <<>>)
          ELSE IF ~yes /\ ~tty THEN Outcome(w, "NukeNeedsTTY", <<>>, <<>>)
          ELSE IF ~yes /\ TrimSpace(line) # <<"N", "U", "K", "E">>
               THEN Outcome(w, "none", <<>>, <<>>)
          ELSE Outcome(nukeDelete(w, names, vols, images, fault), "none",
                       <<>>, <<>>))))

(***************************************************************************)
(* Base image selection (base_image.go)                                    *)
(***************************************************************************)

\* validateNonEmptyImageRef: TRUE when the trimmed reference is not empty and
\* holds no white space.
validateNonEmptyImageRef(ref) ==
    LET t == TrimSpace(ref)
    IN  t # <<>> /\ \A k \in 1..Len(t) : t[k] # " "

NoBaseImage(kind) ==
    [kind |-> kind, base |-> <<>>, source |-> "", usedAlias |-> FALSE]

\* Mutant: an alias whose value is itself an alias key is resolved again.
resolveBaseImageTwice(input, cfg) ==
    LET in == TrimSpace(input)
    IN  IF ~validateNonEmptyImageRef(in) THEN NoBaseImage("InvalidRef")
        ELSE IF in \in DOMAIN cfg.BaseImageAliases
             THEN LET v == TrimSpace(cfg.BaseImageAliases[in])
                      v2 == IF v \in DOMAIN cfg.BaseImageAliases
                            THEN TrimSpace(cfg.BaseImageAliases[v]) ELSE v
                  IN  IF ~validateNonEmptyImageRef(v2)
                      THEN NoBaseImage("InvalidAlias")
                      ELSE [kind |-> "ok", base |-> v2, source |-> "",
                            usedAlias |-> TRUE]
        ELSE [kind |-> "ok", base |-> in, source |-> "", usedAlias |-> FALSE]

\* resolveBaseImage: the value of the alias when the input is an alias key,
\* the input itself otherwise.
resolveBaseImage(input, cfg) ==
    LET in == TrimSpace(input)
    IN  IF ~validateNonEmptyImageRef(in) THEN NoBaseImage("InvalidRef")
        ELSE IF in \in DOMAIN cfg.BaseImageAliases
             THEN LET v == TrimSpace(cfg.BaseImageAliases[in])
                  IN  IF ~validateNonEmptyImageRef(v)
                      THEN NoBaseImage("InvalidAlias")
                      ELSE [kind |-> "ok", base |-> v, source |-> "",
                            usedAlias |-> TRUE]
        ELSE [kind |-> "ok", base |-> in, source |-> "", usedAlias |-> FALSE]

\* chooseBaseImage(flagVal, args, cfg)
chooseBaseImage(flagVal, args, cfg) ==
    LET f == TrimSpace(flagVal)
    IN  IF f # <<>> /\ Len(args) > 0 THEN NoBaseImage("SpecifiedTwice")
        ELSE LET raw == IF f # <<>> THEN f
                        ELSE IF Len(args) = 1 THEN TrimSpace(args[1])
                        ELSE TrimSpace(cfg.DefaultBaseImage)
                 source == IF f # <<>> THEN "flag"
                           ELSE IF Len(args) = 1 THEN "arg" ELSE "config"
             IN  IF raw = <<>> THEN NoBaseImage("NoBaseImage")
                 ELSE LET res == resolveBaseImage(raw, cfg)
                      IN  IF res.kind # "ok" THEN res
                          ELSE [res EXCEPT !.source = source]

(***************************************************************************)
(* Env file resolution (env.go)                                            *)
(***************************************************************************)

EnvFileFlag == <<"-", "-", "e", "n", "v", "-", "f", "i", "l", "e">>

\* The path segments "ai-shell", ".env" and ".config".
AiShellSeg == <<"a", "i", "-", "s", "h", "e", "l", "l">>
DotEnvSeg == <<".", "e", "n", "v">>
DotConfigSeg == <<".", "c", "o", "n", "f", "i", "g">>

\* filepath.Abs(filepath.Join(expandUser(xdg), "ai-shell", ".env"))
xdgCandidate(xdg) ==
    Abs(expandUser(xdg) \o <<"/">> \o AiShellSeg \o <<"/">> \o DotEnvSeg)

\* filepath.Abs(expandUser("~/.config/ai-shell/.env"))
homeCandidate ==
    Abs(expandUser(<<"~", "/">> \o DotConfigSeg \o <<"/">> \o AiShellSeg
                   \o <<"/">> \o DotEnvSeg))

\* os.Stat succeeds: the path is a node of the fixture or one of the env
\* files present on this host.
statOK(abs, os) == Stat(abs).kind # "missing" \/ abs \in os.files

\* resolvePath: trimmed, "~" expanded, made absolute; "" stays "".
resolvePath(p) ==
    LET q == expandUser(TrimSpace(p))
    IN  IF q = <<>> THEN <<>> ELSE Abs(q)

EnvFileError(kind) ==
    [kind |-> kind, Path |-> <<>>, Args |-> <<>>, Source |-> ""]

EnvFileFound(abs, source) ==
    [kind |-> "ok", Path |-> abs, Args |-> <<EnvFileFlag, abs>>, Source |-> source]

EnvFileWithout(source) ==
    [kind |-> "ok", Path |-> <<>>, Args |-> <<>>, Source |-> source]

\* resolvePath and mustExist on a path given by flag or environment.
envFileGiven(original, source, os) ==
    LET abs == resolvePath(original)
    IN  IF abs = <<>> THEN EnvFileError("EnvFilePathEmpty")
        ELSE IF ~statOK(abs, os) THEN EnvFileError("EnvFileNotFound")
        ELSE EnvFileFound(abs, source)

\* The defaults: the XDG file if present, then the home file if present.
envFileDefault(os) ==
    IF TrimSpace(os.xdg) # <<>> /\ statOK(xdgCandidate(TrimSpace(os.xdg)), os)
    THEN EnvFileFound(xdgCandidate(TrimSpace(os.xdg)), "xdg")
    ELSE IF statOK(homeCandidate, os) THEN EnvFileFound(homeCandidate, "home")
    ELSE EnvFileWithout("none")

\* Mutant: a flag or environment path that does not exist is passed over.
resolveEnvFileArgsFallback(flagValue, flagChanged, os) ==
    IF flagChanged /\ flagValue = <<>> THEN EnvFileWithout("disabled")
    ELSE IF flagChanged /\ envFileGiven(flagValue, "flag", os).kind = "ok"
         THEN envFileGiven(flagValue, "flag", os)
    ELSE IF TrimSpace(os.env) # <<>>
            /\ envFileGiven(TrimSpace(os.env), "env", os).kind = "ok"
         THEN envFileGiven(TrimSpace(os.env), "env", os)
    ELSE envFileDefault(os)

\* resolveEnvFileArgs(flagValue, flagChanged); os holds AI_SHELL_ENV_FILE,
\* XDG_CONFIG_HOME and the env files present.
resolveEnvFileArgs(flagValue, flagChanged, os) ==
    IF flagChanged
    THEN IF flagValue = <<>> THEN EnvFileWithout("disabled")
         ELSE envFileGiven(flagValue, "flag", os)
    ELSE IF TrimSpace(os.env) # <<>>
         THEN envFileGiven(TrimSpace(os.env), "env", os)
    ELSE envFileDefault(os)

(***************************************************************************)
(* Inputs of the pure functions                                            *)
(***************************************************************************)

MaxInst == 2    \* longest instance list given to matchTarget
MaxIds == 3     \* longest id list given to uniquePrefixLen
MaxN == 4       \* largest min and max given to uniquePrefixLen

SeqsUpTo(S, n) == UNION {[1..k -> S] : k \in 0..n}

NamePool == { <<"a", "b">>, <<"q">> }
IdPool == { <<>>, <<"a", "b", "c">>, <<"a", "b", "d">> }
WorkdirPool == { <<>>, <<"/", "a">>, <<"/", "l">>, <<"/", "g">>, <<"w">> }

InstancePool ==
    { [Workdir |-> w, InstanceID |-> i, Container |-> c,
       Status |-> <<>>, Image |-> <<>>, Volume |-> <<>>] :
      w \in WorkdirPool, i \in IdPool, c \in NamePool }

TargetPool ==
    { <<>>, <<" ">>, <<"a">>, <<"a", "b">>, <<" ", "a", "b">>, <<"a", "b", "c">>,
      <<"w">>, <<"/", "a">>, <<"/", "l">>, <<"/", "g">>,
      <<".", "/", "a">> }

PrefixIdPool ==
    { <<"a">>, <<"a", "b">>, <<"a", "a", "b">>, <<"a", "b", "a">>,
      <<"a", "b", "b">>, <<"a", "b", "b", "a">> }

Idle == [cmd |-> "idle"]

\* Values of the variables a specification does not use.
RuntimeUnused == containers = <<>> /\ volumes = {} /\ inv = Idle
MatchUnused == target = <<>> /\ instances = <<>> /\ matched = NotMatched
PrefixUnused == ids = <<>> /\ lo = 0 /\ hi = 0 /\ plen = NoLength

(***************************************************************************)
(* SpecMatch: matchTarget applied to every target and instance list        *)
(***************************************************************************)

InitMatch ==
    /\ target \in TargetPool
    /\ instances \in SeqsUpTo(InstancePool, MaxInst)
    /\ matched = NotMatched
    /\ RuntimeUnused /\ PrefixUnused

MatchTargetCall ==
    /\ matched.kind = "not-called"
    /\ matched' = matchTarget(target, instances)
    /\ UNCHANGED <<containers, volumes, inv, target, instances, ids, lo, hi, plen>>

NextMatch == MatchTargetCall

SpecMatch == InitMatch /\ [][NextMatch]_vars

(***************************************************************************)
(* SpecPrefix: uniquePrefixLen applied to every id list and range          *)
(***************************************************************************)

InitPrefix ==
    /\ ids \in SeqsUpTo(PrefixIdPool, MaxIds)
    /\ lo \in 0..MaxN
    /\ hi \in 0..MaxN
    /\ plen = NoLength
    /\ RuntimeUnused /\ MatchUnused

UniquePrefixLenCall ==
    /\ ~plen.called
    /\ plen' = [called |-> TRUE, n |-> uniquePrefixLen(ids, lo, hi)]
    /\ UNCHANGED <<containers, volumes, inv, target, instances, matched, ids, lo, hi>>

NextPrefix == UniquePrefixLenCall

SpecPrefix == InitPrefix /\ [][NextPrefix]_vars

(***************************************************************************)
(* SpecBase: chooseBaseImage applied to every flag, argument list and       *)
(* configuration                                                           *)
(***************************************************************************)

\* Values of --base-image, of the positional argument and of
\* default-base-image: none, blank, an image, an alias key, an image
\* reference with a blank inside.
ImageRefPool ==
    { <<>>, <<" ">>, <<"i">>, <<" ", "i">>, <<"u">>, <<"i", " ", "j">> }

\* `up` takes at most one positional argument.
BaseArgsPool == { <<>> } \cup { <<r>> : r \in ImageRefPool \ {<<" ", "i">>} }

\* base-image-aliases: none, one alias, an alias whose value is an alias
\* key, an alias with a blank value.
AliasPool ==
    { <<>>,
      [k \in {<<"u">>} |-> <<"i">>],
      [k \in {<<"u">>, <<"v">>} |-> IF k = <<"u">> THEN <<"v">> ELSE <<"w">>],
      [k \in {<<"u">>} |-> <<" ">>] }

InitBase ==
    /\ inv \in { [cmd |-> "chooseBaseImage", flagVal |-> f, args |-> a,
                  cfg |-> [DefaultBaseImage |-> d, BaseImageAliases |-> m]] :
                 f \in ImageRefPool, a \in BaseArgsPool,
                 d \in ImageRefPool \ {<<"i", " ", "j">>}, m \in AliasPool }
    /\ containers = <<>> /\ volumes = {}
    /\ MatchUnused /\ PrefixUnused

ChooseBaseImageCall ==
    /\ matched.kind = "not-called"
    /\ matched' = chooseBaseImage(inv.flagVal, inv.args, inv.cfg)
    /\ UNCHANGED <<containers, volumes, inv, target, instances, ids, lo, hi, plen>>

NextBase == ChooseBaseImageCall

SpecBase == InitBase /\ [][NextBase]_vars

(***************************************************************************)
(* SpecEnv: resolveEnvFileArgs applied to every flag, environment and set   *)
(* of env files                                                            *)
(***************************************************************************)

\* Values of --env-file and AI_SHELL_ENV_FILE: empty, blank, an existing
\* file given absolutely, relatively and with blanks around, a missing one.
EnvPathPool ==
    { <<>>, <<" ">>, <<"/", "f">>, <<"f">>, <<" ", "/", "f", " ">>, <<"/", "g">> }

\* Values of XDG_CONFIG_HOME.
XdgPool == { <<>>, <<"/", "a">>, <<"~">> }

\* The default env files that may be present.
EnvFilePool ==
    { xdgCandidate(<<"/", "a">>), xdgCandidate(<<"/", "h">>), homeCandidate }

InitEnv ==
    /\ inv \in { [cmd |-> "resolveEnvFileArgs", flagValue |-> f, flagChanged |-> c,
                  os |-> [env |-> e, xdg |-> x, files |-> fs]] :
                 f \in EnvPathPool, c \in BOOLEAN, e \in EnvPathPool,
                 x \in XdgPool, fs \in SUBSET EnvFilePool }
    /\ ~inv.flagChanged => inv.flagValue = <<>>
    /\ containers = <<>> /\ volumes = {}
    /\ MatchUnused /\ PrefixUnused

ResolveEnvFileArgsCall ==
    /\ matched.kind = "not-called"
    /\ matched' = resolveEnvFileArgs(inv.flagValue, inv.flagChanged, inv.os)
    /\ UNCHANGED <<containers, volumes, inv, target, instances, ids, lo, hi, plen>>

NextEnv == ResolveEnvFileArgsCall

SpecEnv == InitEnv /\ [][NextEnv]_vars

(***************************************************************************)
(* SpecShort: `ls` computes the SHORT column for a listing, then one SHORT  *)
(* value is given to matchTarget with the same listing                     *)
(***************************************************************************)

\* Instance labels of listed containers: none, ids that differ at the 4th or
\* at the 5th character, an id that starts with a blank.
ShortIdPool ==
    { <<>>, <<"a", "b", "c", "d", "e">>, <<"a", "b", "c", "d", "f">>,
      <<"a", "b", "c", "f", "g">>, <<" ", "a", "b", "c", "d">> }

\* Container names of listed containers; one of them reads like the first
\* characters of an id.
ShortNamePool == { <<"a", "b", "c", "d">>, <<"q">>, <<"r">> }

ShortInstancePool ==
    { [Workdir |-> <<>>, InstanceID |-> i, Container |-> c,
       Status |-> <<>>, Image |-> <<>>, Volume |-> <<>>] :
      i \in ShortIdPool, c \in ShortNamePool }

\* listManagedInstances returns one record per container name, in ascending
\* name order.
ListedOrder(insts) ==
    \A k \in 1..(Len(insts) - 1) : StrLess(insts[k].Container, insts[k + 1].Container)

InitShort ==
    /\ instances \in {l \in SeqsUpTo(ShortInstancePool, MaxInst) : ListedOrder(l)}
    /\ target = <<>> /\ matched = NotMatched
    /\ PrefixUnused
    /\ RuntimeUnused

\* newLsCmd from the listing to shortLen.
LsShortLen ==
    /\ ~plen.called
    /\ ids' = nonEmptyIds(instances)
    /\ lo' = ShortMin /\ hi' = ShortMax
    /\ plen' = [called |-> TRUE, n |-> uniquePrefixLen(ids', lo', hi')]
    /\ UNCHANGED <<containers, volumes, inv, target, instances, matched>>

\* The SHORT of one printed row is given as TARGET.
UseShort ==
    /\ plen.called /\ matched.kind = "not-called"
    /\ \E k \in 1..Len(instances) :
          /\ target' = lsRow(instances[k], plen.n).short
          /\ matched' = matchTarget(target', instances)
    /\ UNCHANGED <<containers, volumes, inv, instances, ids, lo, hi, plen>>

NextShort == LsShortLen \/ UseShort

SpecShort == InitShort /\ [][NextShort]_vars

(***************************************************************************)
(* Spec: invocations of the CLI against a container runtime that other     *)
(* users of the runtime change between invocations                         *)
(***************************************************************************)

WorkdirA == <<"/", "a">>
WorkdirB == <<"/", "b">>
ContainerA == NamesFor(WorkdirA, DefaultContainerBase, DefaultVolumeBase).container
ContainerB == NamesFor(WorkdirB, DefaultContainerBase, DefaultVolumeBase).container
VolumeA == NamesFor(WorkdirA, DefaultContainerBase, DefaultVolumeBase).volume
VolumeB == NamesFor(WorkdirB, DefaultContainerBase, DefaultVolumeBase).volume
ForeignVolume == <<"d", "a", "t", "a">>

Names == {ContainerA, ContainerB}
HomeOf(name) == IF name = ContainerA THEN WorkdirA ELSE WorkdirB
OtherHome(name) == IF name = ContainerA THEN WorkdirB ELSE WorkdirA
DerivedVolume(name) == IF name = ContainerA THEN VolumeA ELSE VolumeB

\* --workdir values: two directories and a missing path.
WorkdirArgs == {WorkdirA, WorkdirB, <<"/", "g">>}

\* Paths given to `instance`: the working directory, absolute and relative
\* spellings of the same directory, a symlink to it, the home directory, a
\* regular file, a missing path, a path below a file, a symlink inside /a
\* that leads to /b, the parent of that symlink's path, and that symlink
\* reached through the symlink to /a.
PathArgs ==
    {<<>>, <<".">>, <<"/", "a">>, <<"a">>, <<".", "/", "a">>, <<"/", "a", "/">>,
     <<"/", "b", "/", ".", ".", "/", "a">>, <<"/", "l">>, <<"l", "/", ".">>,
     <<"/", "b">>, <<"~">>, <<"~", "/", ".", ".", "/", "b">>, <<"/", "h">>,
     <<"/", "f">>, <<"/", "g">>, <<"/", "f", "/", "a">>, <<"/", "l", "/", "g">>,
     <<"/", "a", "/", "k">>, <<"/", "a", "/", "k", "/", ".", ".">>,
     <<"/", "l", "/", "k">>}

\* Base overrides given to `instance`: none, both, a blank one.
BaseArgs ==
    {[container |-> <<>>, volume |-> <<>>],
     [container |-> <<"c">>, volume |-> <<"v">>],
     [container |-> <<" ">>, volume |-> <<"v", "_">>]}

\* TARGET values: an instance-id prefix, a container name, a path, a miss,
\* a common prefix of both container names, blank.
CliTargets ==
    {<<"6", "a", "5", "0">>, ContainerB, WorkdirA, <<"z", "z">>,
     DefaultContainerBase, <<" ">>}

NoFault == [op |-> "none", name |-> <<>>]
Faults == {NoFault, [op |-> "mutate", name |-> <<>>],
           [op |-> "inspect", name |-> ContainerA], [op |-> "ps", name |-> <<>>]}

\* What can go wrong for a TARGET-form start, stop, enter or rm: the faults
\* above, or the container replaced between the listing and the next call.
ReplaceFault == [op |-> "replace", name |-> ContainerA]
TargetFaults == Faults \cup {ReplaceFault}

NukeLines == {<<"N", "U", "K", "E">>, <<" ", "N", "U", "K", "E", " ">>, <<"n">>}
NukeConflicts == {"none", "--volume", "TARGET", "--workdir"}

\* Containers that something other than `up` put under a derived name.
Profiles == {"unlabelled", "otherlabel", "drift", "nomount", "novolume"}

ForeignContainer(name, profile, running) ==
    [exists  |-> TRUE,
     running |-> running,
     image   |-> DefaultImage,
     labels  |->
        CASE profile = "unlabelled" -> NilLabels
          [] profile = "otherlabel" ->
                [nil |-> FALSE, managed |-> <<"y", "e", "s">>,
                 instance |-> <<>>, volume |-> <<>>, workdir |-> <<>>]
          [] profile = "drift" ->
                [buildLabels(InstanceID(OtherHome(name)), ForeignVolume)
                   EXCEPT !.workdir = HomeOf(name)]
          [] profile = "nomount" ->
                buildLabels(InstanceID(HomeOf(name)), DerivedVolume(name))
          [] OTHER ->
                buildLabels(InstanceID(HomeOf(name)), <<>>),
     mounts  |->
        CASE profile = "drift" -> << VolumeMount(ForeignVolume, RootMount),
                                     BindMount(OtherHome(name), WorkMount) >>
          [] profile = "nomount" -> << VolumeMount(ForeignVolume, WorkMount) >>
          [] OTHER -> << BindMount(HomeOf(name), WorkMount) >>]

World ==
    [c |-> containers, v |-> volumes, calls |-> <<>>, guard |-> NoGuard,
     resolved |-> NotMatched, listed |-> NotListed, identity |-> NoIdentity]

Pure == <<target, instances, matched, ids, lo, hi, plen>>

\* One process of the CLI: the command line, what it did, what it returned.
Invoke(cmd, form, arg, opt, fault, outcome) ==
    /\ inv.cmd = "idle"
    /\ \E out \in {outcome} :
         /\ containers' = out.w.c
         /\ volumes' = out.w.v
         /\ inv' = [cmd |-> cmd, form |-> form, arg |-> arg, opt |-> opt,
                    fault |-> fault, err |-> out.err,
                    container |-> out.container, workdir |-> out.workdir,
                    calls |-> out.w.calls, guard |-> out.w.guard,
                    resolved |-> out.w.resolved, listed |-> out.w.listed,
                    identity |-> out.w.identity,
                    pre |-> containers, preVolumes |-> volumes]
    /\ UNCHANGED Pure

Init ==
    /\ containers = [n \in Names |-> NoContainer]
    /\ volumes = {}
    /\ inv = Idle
    /\ MatchUnused /\ PrefixUnused

Up ==
    \E wd \in WorkdirArgs, recreate \in BOOLEAN, f \in Faults :
        Invoke("up", "workdir", wd, recreate, f, cmdUp(World, wd, recreate, f))

StartCmd ==
    \/ \E f \in Faults, wd \in WorkdirArgs :
         Invoke("start", "workdir", wd, FALSE, f, cmdStart(World, "workdir", wd, f))
    \/ \E f \in TargetFaults, t \in CliTargets :
         Invoke("start", "target", t, FALSE, f, cmdStart(World, "target", t, f))

StopCmd ==
    \/ \E f \in Faults, wd \in WorkdirArgs :
         Invoke("stop", "workdir", wd, FALSE, f, cmdStop(World, "workdir", wd, f))
    \/ \E f \in TargetFaults, t \in CliTargets :
         Invoke("stop", "target", t, FALSE, f, cmdStop(World, "target", t, f))

EnterCmd ==
    \/ \E f \in Faults, wd \in WorkdirArgs :
         Invoke("enter", "workdir", wd, FALSE, f, cmdEnter(World, "workdir", wd, f))
    \/ \E f \in TargetFaults, t \in CliTargets :
         Invoke("enter", "target", t, FALSE, f, cmdEnter(World, "target", t, f))

CheckCmd ==
    \E f \in Faults :
        \/ \E wd \in WorkdirArgs :
             Invoke("check", "workdir", wd, FALSE, f, cmdCheck(World, "workdir", wd, f))
        \/ \E t \in CliTargets :
             Invoke("check", "target", t, FALSE, f, cmdCheck(World, "target", t, f))

StatusCmd ==
    \E f \in Faults :
        \/ \E wd \in WorkdirArgs :
             Invoke("status", "workdir", wd, FALSE, f, cmdStatus(World, "workdir", wd, f))
        \/ \E t \in CliTargets :
             Invoke("status", "target", t, FALSE, f, cmdStatus(World, "target", t, f))

RmCmd ==
    \/ \E f \in Faults, removeVolume \in BOOLEAN, wd \in WorkdirArgs :
         Invoke("rm", "workdir", wd, removeVolume, f,
                cmdRmWorkdir(World, wd, removeVolume, f))
    \/ \E f \in TargetFaults, removeVolume \in BOOLEAN, t \in CliTargets :
         Invoke("rm", "target", t, removeVolume, f,
                cmdRmTarget(World, t, removeVolume, f))

InstanceCmd ==
    \E p \in PathArgs, b \in BaseArgs :
        Invoke("instance", "workdir", p, b, NoFault,
               cmdInstance(World, [Config(p) EXCEPT !.ContainerBase = b.container,
                                                    !.VolumeBase = b.volume]))

LsCmd ==
    \E f \in Faults : Invoke("ls", "list", <<>>, FALSE, f, cmdLs(World, f))

RmNukeCmd ==
    \E f \in Faults, conflict \in NukeConflicts, yes \in BOOLEAN,
       tty \in BOOLEAN, line \in NukeLines :
        /\ conflict # "none" => yes = tty /\ line = <<"n">>
        /\ yes => line = <<"n">>
        /\ Invoke("rm", "nuke", line, [conflict |-> conflict, yes |-> yes, tty |-> tty],
                  f, cmdRmNuke(World, conflict, yes, tty, line, f))

\* The process ends; nothing of it remains but what it did to the runtime.
Exit ==
    /\ inv.cmd # "idle"
    /\ inv' = Idle
    /\ UNCHANGED <<containers, volumes>>
    /\ UNCHANGED Pure

\* Someone else runs a container under the name the CLI derives for the
\* first workdir.
EnvRun ==
    \E p \in Profiles, running \in BOOLEAN :
        /\ inv.cmd = "idle"
        /\ ~containers[ContainerA].exists
        /\ containers' = [containers EXCEPT
                            ![ContainerA] = ForeignContainer(ContainerA, p, running)]
        /\ volumes' = IF p \in {"drift", "nomount"}
                       THEN volumes \cup {ForeignVolume} ELSE volumes
        /\ UNCHANGED inv
        /\ UNCHANGED Pure

\* Someone else creates a volume whose name starts with the default base.
EnvVolumeCreate ==
    /\ inv.cmd = "idle"
    /\ VolumeA \notin volumes
    /\ volumes' = volumes \cup {VolumeA}
    /\ UNCHANGED <<containers, inv>>
    /\ UNCHANGED Pure

Next ==
    \/ Up \/ StartCmd \/ StopCmd \/ EnterCmd \/ CheckCmd \/ StatusCmd
    \/ RmCmd \/ RmNukeCmd \/ LsCmd \/ InstanceCmd \/ Exit \/ EnvRun \/ EnvVolumeCreate

Spec == Init /\ [][Next]_vars


(***************************************************************************)
(* Claims about matchTarget (checked under SpecMatch)                      *)
(***************************************************************************)

MatchCalled == matched.kind # "not-called"
Trimmed == TrimSpace(target)
InstIdx == 1..Len(instances)

\* The positions of the instance list matched by each strategy for target t,
\* stated from the strategy's definition.
NameMatches(t) == {i \in InstIdx : instances[i].Container = t}
IDMatches(t) == {i \in InstIdx : instances[i].InstanceID = t}
IDPrefixMatches(t) == {i \in InstIdx : HasPrefix(instances[i].InstanceID, t)}
NamePrefixMatches(t) == {i \in InstIdx : HasPrefix(instances[i].Container, t)}
WorkdirLiteralMatches(t) == {i \in InstIdx : instances[i].Workdir = t}
PathLike(t) == \/ \E k \in 1..Len(t) : t[k] = "/"
               \/ (t # <<>> /\ t[1] \in {".", "~"})
CanonicalOrLiteral(t) ==
    IF CanonicalWorkdir(t).ok THEN CanonicalWorkdir(t).path ELSE t
WorkdirMatches(t) ==
    IF PathLike(t)
    THEN {i \in InstIdx : instances[i].Workdir = CanonicalOrLiteral(t)}
    ELSE {}

\* The strategies as the code applies them, and as the claims word them
\* (strategy 5 as plain workdir equality).
AppliedSets(t) ==
    << NameMatches(t), IDMatches(t), IDPrefixMatches(t), NamePrefixMatches(t),
       WorkdirMatches(t) >>
LiteralSets(t) ==
    << NameMatches(t), IDMatches(t), IDPrefixMatches(t), NamePrefixMatches(t),
       WorkdirLiteralMatches(t) >>

\* The first strategy with a match, and the first with exactly one match
\* (0 when there is none).
FirstNonEmpty(S) ==
    IF \E k \in 1..Len(S) : S[k] # {}
    THEN CHOOSE k \in 1..Len(S) : S[k] # {} /\ \A j \in 1..(k - 1) : S[j] = {}
    ELSE 0
FirstSingleton(S) ==
    IF \E k \in 1..Len(S) : Cardinality(S[k]) = 1
    THEN CHOOSE k \in 1..Len(S) :
            Cardinality(S[k]) = 1 /\ \A j \in 1..(k - 1) : Cardinality(S[j]) # 1
    ELSE 0
TheOne(set) == CHOOSE i \in set : TRUE
Returns(i) == matched.kind = "ok" /\ matched.inst = instances[i]

\* C2 as stated: for a non-empty target, the single match of the first
\* strategy (name, id, id prefix, name prefix, workdir equality) whose match
\* set has exactly one element is returned.
C2_FirstSingletonWins ==
    (MatchCalled /\ target # <<>>) =>
        LET S == LiteralSets(target)
            k == FirstSingleton(S)
        IN  k # 0 => Returns(TheOne(S[k]))

\* C2 amended: for a target that is non-empty after trimming, the first
\* strategy with any match decides; when it matched exactly one instance that
\* instance is returned without error (strategy 5 only for a path-like target,
\* comparing the canonical target or, failing that, the literal one). A
\* target equal to one instance's container name is resolved to it even when
\* it is a prefix of another instance's id.
C2_FirstMatchingStrategyWins ==
    (MatchCalled /\ Trimmed # <<>>) =>
        LET S == AppliedSets(Trimmed)
            k == FirstNonEmpty(S)
        IN  /\ (k # 0 /\ Cardinality(S[k]) = 1) => Returns(TheOne(S[k]))
            /\ \A a \in InstIdx :
                 (NameMatches(Trimmed) = {a}
                  /\ \E b \in InstIdx \ {a} : b \in IDPrefixMatches(Trimmed))
                 => Returns(a)

\* C2 witness: the target is one instance's exact name and a proper prefix
\* of another instance's id, and the name-matched instance was returned.
C2_Witness ==
    /\ MatchCalled
    /\ \E a \in InstIdx :
         /\ NameMatches(Trimmed) = {a}
         /\ \E b \in InstIdx \ {a} :
              b \in IDPrefixMatches(Trimmed) /\ instances[b].InstanceID # Trimmed
         /\ Returns(a)

\* C3: when the first strategy with any match matched more than one instance,
\* the result is an Ambiguous error and no instance, whatever later
\* strategies would match.
C3_AmbiguityIsTerminal ==
    (MatchCalled /\ Trimmed # <<>>) =>
        LET S == AppliedSets(Trimmed)
            k == FirstNonEmpty(S)
        IN  (k # 0 /\ Cardinality(S[k]) > 1) =>
                matched.kind = "Ambiguous" /\ matched.inst = ZeroInstance

\* C3 witness: an Ambiguous result although a later strategy matches exactly
\* one instance.
C3_Witness ==
    /\ MatchCalled
    /\ matched.kind = "Ambiguous"
    /\ LET S == AppliedSets(Trimmed)
           k == FirstNonEmpty(S)
       IN  \E j \in (k + 1)..Len(S) : Cardinality(S[j]) = 1

\* The candidate order: container name, then instance id, then workdir.
KeyLessEq(x, y) ==
    IF x.Container # y.Container THEN StrLess(x.Container, y.Container)
    ELSE IF x.InstanceID # y.InstanceID THEN StrLess(x.InstanceID, y.InstanceID)
    ELSE x.Workdir = y.Workdir \/ StrLess(x.Workdir, y.Workdir)

Bullet == <<" ", " ", "-", " ">>
TwoSpaces == <<" ", " ">>
\* "instanceID  containerName  workdir" after the list bullet.
RenderAll(x) == Bullet \o x.InstanceID \o TwoSpaces \o x.Container \o TwoSpaces \o x.Workdir
\* The same with an empty instance id or workdir left out with its separator.
RenderNonEmpty(x) ==
    Bullet
    \o (IF x.InstanceID = <<>> THEN <<>> ELSE x.InstanceID \o TwoSpaces)
    \o x.Container
    \o (IF x.Workdir = <<>> THEN <<>> ELSE TwoSpaces \o x.Workdir)

\* The lines list exactly the instances at the positions in set, in
\* candidate order, each rendered by render.
ListsExactly(lines, set, render(_)) ==
    /\ Len(lines) = Cardinality(set)
    /\ \E f \in [1..Len(lines) -> set] :
         /\ \A i, j \in 1..Len(lines) : i # j => f[i] # f[j]
         /\ \A i \in 1..Len(lines) : lines[i] = render(instances[f[i]])
         /\ \A i, j \in 1..Len(lines) :
              i < j => KeyLessEq(instances[f[i]], instances[f[j]])

AmbiguousSet == LET S == AppliedSets(Trimmed) IN S[FirstNonEmpty(S)]

\* C4 as stated: the Ambiguous error lists exactly the instances matched by
\* the ambiguous strategy, ordered by (container name, instance id, workdir),
\* each rendered as "instanceID  containerName  workdir".
C4_CandidatesRenderedInFull ==
    (MatchCalled /\ matched.kind = "Ambiguous") =>
        ListsExactly(matched.lines, AmbiguousSet, RenderAll)

\* C4 amended: the same, with an empty instance id or an empty workdir left
\* out of the candidate's line together with its two-space separator.
C4_CandidatesListedSorted ==
    (MatchCalled /\ matched.kind = "Ambiguous") =>
        ListsExactly(matched.lines, AmbiguousSet, RenderNonEmpty)

\* C4 witness: two candidates given in descending order are listed in
\* ascending order, and one of them has no instance id.
C4_Witness ==
    /\ MatchCalled
    /\ matched.kind = "Ambiguous"
    /\ Len(instances) = 2
    /\ Len(matched.lines) = 2
    /\ matched.lines[1] = RenderNonEmpty(instances[2])
    /\ matched.lines[2] = RenderNonEmpty(instances[1])
    /\ matched.lines[1] # matched.lines[2]
    /\ instances[1].InstanceID = <<>>

NoNameOrIDMatch(t) ==
    /\ NameMatches(t) = {} /\ IDMatches(t) = {}
    /\ IDPrefixMatches(t) = {} /\ NamePrefixMatches(t) = {}

\* A result obtained from strategies 1-4 alone.
ResolvedByNameOrID(t) ==
    LET S == SubSeq(AppliedSets(t), 1, 4)
        k == FirstNonEmpty(S)
    IN  k # 0 /\ Cardinality(S[k]) = 1 /\ Returns(TheOne(S[k]))

\* The gate of the workdir strategy: a target that is not path-like is
\* resolved by strategies 1-4 or not at all, and is NotFound when they match
\* nothing.
GateHolds ==
    (MatchCalled /\ Trimmed # <<>> /\ ~PathLike(Trimmed)) =>
        /\ matched.kind = "ok" => ResolvedByNameOrID(Trimmed)
        /\ NoNameOrIDMatch(Trimmed) => matched.kind = "NotFound"

\* C10 as stated: the gate, and a path-like target equal to exactly one
\* instance's workdir and matching no name or id returns that instance.
C10_PathLikeEqualWorkdirResolves ==
    /\ GateHolds
    /\ (MatchCalled /\ Trimmed # <<>> /\ PathLike(Trimmed)
        /\ NoNameOrIDMatch(Trimmed)
        /\ Cardinality(WorkdirLiteralMatches(Trimmed)) = 1)
       => Returns(TheOne(WorkdirLiteralMatches(Trimmed)))

\* C10 amended: the gate, and a path-like target whose canonical form (the
\* literal target when canonicalisation fails) equals exactly one instance's
\* workdir and which matches no name or id returns that instance.
C10_WorkdirOnlyForPathLike ==
    /\ GateHolds
    /\ (MatchCalled /\ Trimmed # <<>> /\ PathLike(Trimmed)
        /\ NoNameOrIDMatch(Trimmed)
        /\ Cardinality(WorkdirMatches(Trimmed)) = 1)
       => Returns(TheOne(WorkdirMatches(Trimmed)))

\* C10 witness: a target that is not path-like equals an instance's workdir,
\* matches no name or id, and the result is NotFound.
C10_Witness ==
    /\ MatchCalled
    /\ ~PathLike(Trimmed)
    /\ NoNameOrIDMatch(Trimmed)
    /\ WorkdirLiteralMatches(Trimmed) # {}
    /\ matched.kind = "NotFound"

(***************************************************************************)
(* Claims about uniquePrefixLen (checked under SpecPrefix)                 *)
(***************************************************************************)

\* Length n separates the ids: every id has at least n characters and no
\* two positions of the list share their first n characters.
Separates(n) ==
    /\ \A i \in 1..Len(ids) : Len(ids[i]) >= n
    /\ \A i, j \in 1..Len(ids) :
         i # j => SubSeq(ids[i], 1, n) # SubSeq(ids[j], 1, n)

\* C9: uniquePrefixLen returns the smallest n in min..max that separates the
\* ids, and 0 when there is none or when min < 1 or max < min.
C9_SmallestSeparatingLength ==
    plen.called =>
        IF lo >= 1 /\ hi >= lo /\ \E n \in lo..hi : Separates(n)
        THEN /\ plen.n \in lo..hi
             /\ Separates(plen.n)
             /\ \A m \in lo..(plen.n - 1) : ~Separates(m)
        ELSE plen.n = 0

\* C9 witness: the first length tried collides and a longer one is returned.
C9_Witness ==
    /\ plen.called
    /\ Len(ids) >= 2
    /\ plen.n > lo
    /\ ~Separates(lo)


(***************************************************************************)
(* Claims about the ownership guard and the commands (Spec)                *)
(***************************************************************************)

Invoked == inv.cmd # "idle"
GuardCalled == Invoked /\ inv.guard.called
Inspected == inv.guard.insp.info
Labelled(c) == ~c.labels.nil /\ c.labels.managed = LabelTrue
GuardRefusals == {"NotManaged", "WorkdirMismatch", "InspectFailed"}

\* The calls of the invocation that came after its i-th call.
Later(i) == (i + 1)..Len(inv.calls)

\* The source of the bind mount at /work, "" when there is none.
WorkBinds(c) ==
    {i \in 1..Len(c.mounts) :
        c.mounts[i].Type = "bind" /\ c.mounts[i].Destination = WorkMount}
WorkBindSource(c) ==
    IF WorkBinds(c) = {} THEN <<>>
    ELSE c.mounts[CHOOSE i \in WorkBinds(c) : \A j \in WorkBinds(c) : i <= j].Source

\* A container the guard would refuse for the workdir of the invocation.
NotOwned(c) == ~Labelled(c) \/ WorkBindSource(c) # inv.workdir

\* C1 (as stated): in the no-TARGET form, up and recreate included, Start,
\* Stop and Remove reach an existing container only after requireManaged
\* succeeded on it, so that a container that lacks managed=true, or whose
\* /work bind source is not the expected workdir, is never started, stopped
\* or removed.  Stated by its consequence: every container such a command
\* starts, stops or removes is one the guard accepts.
C1_ForeignContainerNeverMutated ==
    Invoked /\ inv.form = "workdir" =>
        \A i \in 1..Len(inv.calls) :
            (/\ inv.calls[i].op \in {"Start", "Stop", "Remove"}
             /\ inv.calls[i].res = "ok"
             /\ inv.pre[inv.calls[i].arg].exists)
            => ~NotOwned(inv.pre[inv.calls[i].arg])

\* C5: requireManaged answers NotManaged whenever the inspected container
\* has no label map or a managed label other than "true", whatever its
\* /work source is.
C5_UnlabelledIsNotManaged ==
    (GuardCalled /\ ~inv.guard.insp.err /\ ~Labelled(Inspected))
        => inv.guard.result.kind = "NotManaged"

\* A NotManaged refusal of a container whose /work source is the expected
\* workdir.
C5_Witness ==
    /\ GuardCalled /\ ~inv.guard.insp.err /\ ~Labelled(Inspected)
    /\ WorkBindSource(Inspected) = inv.guard.expectedArg
    /\ inv.guard.result.kind = "NotManaged"

C7_RefusalAbortsCommand ==
    (GuardCalled /\ inv.guard.result.kind # "ok") =>
        /\ inv.err = inv.guard.result.kind
        /\ inv.err \in GuardRefusals
        /\ \A i \in 1..Len(inv.calls) :
              (inv.calls[i].op = "requireManaged" /\ inv.calls[i].res # "ok")
              => \A j \in Later(i) :
                    inv.calls[j].op \notin {"Start", "Stop", "Remove", "Exec"}

\* start refused on a stopped container that is not managed.
C7_Witness ==
    /\ GuardCalled /\ inv.cmd = "start"
    /\ inv.guard.result.kind = "NotManaged"
    /\ ~inv.pre[inv.container].running
    /\ inv.err = "NotManaged"

\* The volume removals of the invocation that the runtime carried out.
RemoveVolumeCalls ==
    {i \in 1..Len(inv.calls) :
        inv.calls[i].op = "RemoveVolume" /\ inv.calls[i].res = "ok"}

\* The volume derived for the workdir of a container that passed the guard.
DerivedAndGuarded(v) ==
    /\ inv.form = "workdir"
    /\ inv.guard.called /\ inv.guard.result.kind = "ok"
    /\ v = NamesFor(inv.workdir, DefaultContainerBase, DefaultVolumeBase).volume

\* The volume label of a container the managed-label query returned.
NamedByLabel(v) ==
    \E n \in Names :
        /\ inv.pre[n].exists /\ Labelled(inv.pre[n])
        /\ TrimSpace(inv.pre[n].labels.volume) = v

\* An existing volume whose name starts with the default base and "_".
OrphanByName(v) ==
    /\ inv.form = "nuke"
    /\ v \in inv.preVolumes
    /\ HasPrefix(v, DefaultVolumeBase \o <<"_">>)

\* C8 (as stated): every volume rm removes is the derived volume of a
\* guarded workdir or the volume label of a managed container; none is
\* removed for its name alone.
C8_OnlyOwnedVolumesRemoved ==
    Invoked /\ inv.cmd = "rm" =>
        \A i \in RemoveVolumeCalls :
            DerivedAndGuarded(inv.calls[i].arg) \/ NamedByLabel(inv.calls[i].arg)

\* C8 (amended): every volume rm removes is the derived volume of a guarded
\* workdir, the volume label of a managed container, or, under --nuke, an
\* existing volume whose name starts with "ai_agent_shell_home_".
C8_OwnedOrOrphanVolumesRemoved ==
    Invoked /\ inv.cmd = "rm" =>
        \A i \in RemoveVolumeCalls :
            \/ DerivedAndGuarded(inv.calls[i].arg)
            \/ NamedByLabel(inv.calls[i].arg)
            \/ OrphanByName(inv.calls[i].arg)

\* --nuke removes a volume that no managed container names.
C8_Witness ==
    /\ Invoked /\ inv.cmd = "rm" /\ inv.form = "nuke"
    /\ \E i \in RemoveVolumeCalls :
          /\ ~NamedByLabel(inv.calls[i].arg)
          /\ inv.calls[i].arg \notin volumes

(***************************************************************************)
(* Further claims about matchTarget (SpecMatch)                            *)
(***************************************************************************)

\* What the workdir strategy answers when it is the one that decides and S
\* is the set of positions it matches.
DecidedBy(S) ==
    IF S = {} THEN matched.kind = "NotFound"
    ELSE IF Cardinality(S) = 1 THEN Returns(TheOne(S))
    ELSE matched.kind = "Ambiguous"

\* C11: the workdir strategy compares each instance's Workdir with the
\* canonical form of the target, and with the literal target only when
\* canonicalisation fails; so when the canonical form differs from the
\* literal target an instance whose Workdir is the literal target is not
\* returned.
C11_CanonicalTargetCompared ==
    (MatchCalled /\ Trimmed # <<>> /\ PathLike(Trimmed) /\ NoNameOrIDMatch(Trimmed))
    => LET c == CanonicalWorkdir(Trimmed)
       IN  /\ c.ok => DecidedBy({i \in InstIdx : instances[i].Workdir = c.path})
           /\ ~c.ok => DecidedBy(WorkdirLiteralMatches(Trimmed))
           /\ (c.ok /\ c.path # Trimmed)
              => \A i \in WorkdirLiteralMatches(Trimmed) : ~Returns(i)

\* The target is a symlink, an instance has the symlink itself as Workdir,
\* and the instance is not found.
C11_Witness ==
    /\ MatchCalled /\ PathLike(Trimmed) /\ NoNameOrIDMatch(Trimmed)
    /\ CanonicalWorkdir(Trimmed).ok
    /\ CanonicalWorkdir(Trimmed).path # Trimmed
    /\ WorkdirLiteralMatches(Trimmed) # {}
    /\ matched.kind = "NotFound"

(***************************************************************************)
(* Claims about resolveTarget and the lister (Spec)                        *)
(***************************************************************************)

TargetForm == Invoked /\ inv.form = "target"
TargetArg == TrimSpace(inv.arg)

\* The instances the lister returns to the invocation.
Listed == listManagedInstances(inv.pre, inv.fault).insts

\* Instance i is matched by one of the five strategies for target t.
MatchedBySome(t, i) ==
    \/ i.Container = t
    \/ i.InstanceID = t
    \/ (i.InstanceID # <<>> /\ HasPrefix(i.InstanceID, t))
    \/ HasPrefix(i.Container, t)
    \/ (PathLike(t) /\ i.Workdir = CanonicalOrLiteral(t))

NoStrategyMatches(t) ==
    \A k \in 1..Len(Listed) : ~MatchedBySome(t, Listed[k])

QueriedNames == {n \in Names : inv.pre[n].exists /\ Labelled(inv.pre[n])}
InspectableNames ==
    {n \in QueriedNames : inv.fault # [op |-> "inspect", name |-> n]}

\* The record the lister owes for container n.
RecordOf(n) ==
    [Workdir    |-> WorkBindSource(inv.pre[n]),
     InstanceID |-> inv.pre[n].labels.instance,
     Container  |-> n,
     Status     |-> IF inv.pre[n].running THEN StatusRunning ELSE StatusExited,
     Image      |-> inv.pre[n].image,
     Volume     |-> inv.pre[n].labels.volume]

\* C13: the listing holds exactly one record for each name the label query
\* returns whose inspection succeeds, in ascending name order; a failed
\* inspection drops that container only; a failed label query is the error
\* of the listing.
C13_ListingIsInspectableNamesInOrder ==
    (Invoked /\ inv.cmd = "ls") =>
        /\ PsFails(inv.fault) => inv.listed.err /\ inv.err = "ListFailed"
        /\ ~PsFails(inv.fault)
           => /\ ~inv.listed.err /\ inv.err = "none"
              /\ Len(inv.listed.insts) = Cardinality(InspectableNames)
              /\ \A n \in InspectableNames :
                    \E k \in 1..Len(inv.listed.insts) :
                        inv.listed.insts[k] = RecordOf(n)
              /\ \A k \in 1..(Len(inv.listed.insts) - 1) :
                    StrLess(inv.listed.insts[k].Container,
                            inv.listed.insts[k + 1].Container)

\* One of two managed containers cannot be inspected and the other is the
\* whole listing.
C13_Witness ==
    /\ Invoked /\ inv.cmd = "ls"
    /\ Cardinality(QueriedNames) = 2
    /\ Cardinality(InspectableNames) = 1
    /\ Len(inv.listed.insts) = 1
    /\ inv.err = "none"

\* The record the lister builds for the container the guard inspected.
ListedForGuard == instancesOf(inv.pre, <<inv.guard.result.container>>, NoFault)[1]

\* What the guard answers for a listed container and expected workdir e.
GuardOn(n, e) ==
    requireManaged(InspectContainer(inv.pre, n, NoFault), n, e)

HexDigits ==
    {"0", "1", "2", "3", "4", "5", "6", "7", "8", "9", "a", "b", "c", "d", "e", "f"}

IsInstanceID(s) == Len(s) = ShortMax /\ \A k \in 1..Len(s) : s[k] \in HexDigits

\* An `instance` invocation that printed an identity.
InstancePrinted ==
    Invoked /\ inv.cmd = "instance" /\ inv.identity.called /\ ~inv.identity.err

\* The bases in force for an `instance` invocation.
BaseInForce(override, default) ==
    IF TrimSpace(override) # <<>> THEN override ELSE default

\* An `up` invocation that created its container.
UpCreated ==
    /\ Invoked /\ inv.cmd = "up"
    /\ \E k \in 1..Len(inv.calls) :
          inv.calls[k].op = "Run" /\ inv.calls[k].res = "ok"

\* C15: the identity printed for a workdir is a 10-hex-character id that
\* depends on the canonical workdir only, together with the names
\* containerBase-id and volumeBase_id; the id a command derives directly and
\* the one inside the names it derives are the same, so the container `up`
\* creates is named after the instance label it carries, and every
\* workdir-form command on that workdir addresses the same container.
C15_IdentityIsFunctionOfWorkdir ==
    /\ InstancePrinted
       => LET id == inv.identity
          IN  /\ IsInstanceID(id.iid)
              /\ id.iid = InstanceID(id.workdir)
              /\ id.container
                   = BaseInForce(inv.opt.container, DefaultContainerBase)
                       \o <<"-">> \o id.iid
              /\ id.volume
                   = BaseInForce(inv.opt.volume, DefaultVolumeBase)
                       \o <<"_">> \o id.iid
    /\ UpCreated
       => LET c == containers[inv.container]
          IN  /\ IsInstanceID(c.labels.instance)
              /\ inv.container = DefaultContainerBase \o <<"-">> \o c.labels.instance
              /\ c.labels.volume = DefaultVolumeBase \o <<"_">> \o c.labels.instance
    /\ (Invoked /\ inv.form = "workdir" /\ inv.cmd # "instance"
        /\ inv.workdir # <<>>)
       => inv.container
            = DefaultContainerBase \o <<"-">> \o InstanceID(inv.workdir)

\* `instance` on a symlink to /a with both bases overridden prints the id
\* of /a under the overriding bases.
C15_Witness ==
    /\ InstancePrinted
    /\ inv.arg = <<"/", "l">>
    /\ inv.opt.container = <<"c">>
    /\ inv.identity.workdir = WorkdirA
    /\ inv.identity.container = <<"c", "-">> \o InstanceID(WorkdirA)
    /\ inv.identity.volume = <<"v", "_">> \o InstanceID(WorkdirA)

\* ---- Paths of one directory ----

\* The directory the operating system reaches by a path: segments are
\* walked from the root or the current directory, a link is followed when
\* it is met, and ".." is the parent of the directory reached so far.
RECURSIVE PhysWalk(_, _)
PhysWalk(cur, rest) ==
    IF rest = <<>>
    THEN [ok |-> FsNode(AbsFromSegs(cur)).kind = "dir", path |-> AbsFromSegs(cur)]
    ELSE IF Head(rest) = <<".">> THEN PhysWalk(cur, Tail(rest))
    ELSE IF Head(rest) = <<".", ".">>
         THEN PhysWalk(IF cur = <<>> THEN cur ELSE SubSeq(cur, 1, Len(cur) - 1),
                       Tail(rest))
    ELSE LET next == AbsFromSegs(Append(cur, Head(rest)))
             node == FsNode(next)
         IN  IF node.kind = "link"
             THEN PhysWalk(<<>>, Segments(node.to, <<>>) \o Tail(rest))
             ELSE IF node.kind = "dir"
                  THEN PhysWalk(Append(cur, Head(rest)), Tail(rest))
             ELSE [ok |-> FALSE, path |-> next]

RealDir(p) ==
    LET q == expandUser(IF p = <<>> THEN Cwd ELSE p)
    IN  IF Head(q) = "/"
        THEN PhysWalk(<<>>, Segments(q, <<>>))
        ELSE PhysWalk(Segments(Cwd, <<>>), Segments(q, <<>>))

InstanceCalled == Invoked /\ inv.cmd = "instance" /\ inv.identity.called

\* What `instance` prints for another path under the bases of this
\* invocation.
IdentityOf(q) ==
    resolveInstanceCfg([Config(q) EXCEPT !.ContainerBase = inv.opt.container,
                                         !.VolumeBase = inv.opt.volume])

\* C16: whenever the path given to `instance` and another path lead to the
\* same real directory, both are canonicalised to the same string and give
\* the same instance id, container name and volume name.
C16_SameDirectorySameIdentity ==
    (InstanceCalled /\ RealDir(inv.arg).ok)
    => \A q \in PathArgs :
          (RealDir(q).ok /\ RealDir(q).path = RealDir(inv.arg).path)
          => /\ ~inv.identity.err
             /\ ~IdentityOf(q).err
             /\ IdentityOf(q).workdir = inv.identity.workdir
             /\ IdentityOf(q).instanceID = inv.identity.iid
             /\ IdentityOf(q).container = inv.identity.container
             /\ IdentityOf(q).volume = inv.identity.volume

\* ---- Canonicalisation ----

\* An invocation in workdir form whose workdir was canonicalised.
WorkdirResolved == Invoked /\ inv.form = "workdir" /\ inv.workdir # <<>>

\* C17: the canonical workdir of an invocation, canonicalised again on the
\* same filesystem, succeeds and is the same string.
C17_CanonicalWorkdirIdempotent ==
    WorkdirResolved
    => /\ CanonicalWorkdir(inv.arg).ok
       /\ CanonicalWorkdir(CanonicalWorkdir(inv.arg).path)
            = [ok |-> TRUE, path |-> inv.workdir]

\* A path through two symlinks (/l -> /a, /a/k -> /b) was canonicalised to
\* /b, which canonicalises to itself.
C17_Witness ==
    /\ WorkdirResolved
    /\ inv.arg = <<"/", "l", "/", "k">>
    /\ inv.workdir = WorkdirB
    /\ CanonicalWorkdir(inv.workdir).path = WorkdirB

WorkdirForm == Invoked /\ inv.form = "workdir"

\* The absolute path EvalSymlinks is given for the path of the invocation.
GivenAbs == Abs(expandUser(IF inv.arg = <<>> THEN Cwd ELSE inv.arg))

\* The node the operating system reaches by that path.
Reached == PhysWalk(<<>>, Segments(GivenAbs, <<>>))

WorkdirFailed ==
    /\ inv.err # "none"
    /\ inv.workdir = <<>> /\ inv.container = <<>>
    /\ inv.calls = <<>> /\ inv.guard = NoGuard
    /\ containers = inv.pre /\ volumes = inv.preVolumes

\* C18: a workdir-form command fails with no path, no derived name and no
\* runtime call when the path leads to a missing node, through a file, or
\* to a node that is not a directory; a canonical workdir it does obtain is
\* an existing directory, the one the path leads to.
C18_CanonicalWorkdirErrorsAndResult ==
    WorkdirForm
    => /\ ~Reached.ok => WorkdirFailed
       /\ FsNode(Reached.path).kind \in {"missing", "file"} => WorkdirFailed
       /\ inv.workdir # <<>>
            => /\ FsNode(inv.workdir).kind = "dir"
               /\ Reached = [ok |-> TRUE, path |-> inv.workdir]
       /\ inv.workdir = <<>> => WorkdirFailed /\ ~Reached.ok

\* `instance` on the regular file /f fails and prints nothing.
C18_Witness ==
    /\ WorkdirForm /\ inv.cmd = "instance"
    /\ inv.arg = <<"/", "f">>
    /\ FsNode(Reached.path).kind = "file"
    /\ WorkdirFailed
    /\ inv.identity.err

\* ---- rm --nuke ----

NukeRun == Invoked /\ inv.cmd = "rm" /\ inv.form = "nuke"

NUKE == <<"N", "U", "K", "E">>

\* The Stop, Remove, RemoveVolume and RemoveImage calls of the invocation.
Deletions ==
    {k \in 1..Len(inv.calls) :
       inv.calls[k].op \in {"Stop", "Remove", "RemoveVolume", "RemoveImage"}}

NothingDone ==
    /\ inv.calls = <<>> /\ containers = inv.pre /\ volumes = inv.preVolumes

\* No managed container and no volume under the default volume base.
NothingToDelete ==
    /\ \A n \in DOMAIN inv.pre : ~(inv.pre[n].exists /\ Labelled(inv.pre[n]))
    /\ \A v \in inv.preVolumes : ~HasPrefix(v, DefaultVolumeBase \o <<"_">>)

NukeConflictRejected ==
    (NukeRun /\ inv.opt.conflict # "none")
    => inv.err = "NukeConflict" /\ NothingDone

HasId(k) == instances[k].InstanceID # <<>>
ShortOf(k) == lsRow(instances[k], plen.n).short
ShortLenFound == plen.called /\ plen.n > 0

ShortsDistinct ==
    \A j \in InstIdx : \A k \in InstIdx :
       (HasId(j) /\ HasId(k) /\ j # k) => ShortOf(j) # ShortOf(k)

\* C20 as stated: when uniquePrefixLen over the non-empty ids returns n > 0,
\* the SHORT values of the instances with an id are pairwise distinct and
\* matchTarget on the SHORT of an instance returns that instance.
C20_ShortResolvesToItsInstance ==
    ShortLenFound
    => /\ ShortsDistinct
       /\ MatchCalled
            => \A k \in InstIdx :
                  (HasId(k) /\ ShortOf(k) = target) => Returns(k)

\* C20, amended: when uniquePrefixLen over the non-empty ids returns n > 0,
\* the SHORT values of the instances with an id are pairwise distinct;
\* matchTarget on the SHORT of an instance returns that instance if the
\* SHORT has no blank at either end and is not the container name of a
\* listed instance; if it is the container name of a listed instance, that
\* instance is returned (strategy 1 precedes the id strategies).
C20_ShortResolvesUnlessItIsAName ==
    ShortLenFound
    => /\ ShortsDistinct
       /\ MatchCalled
            => \A k \in InstIdx :
                  (HasId(k) /\ ShortOf(k) = target)
                  => /\ (TrimSpace(target) = target /\ NameMatches(target) = {})
                          => Returns(k)
                     /\ (TrimSpace(target) = target /\ NameMatches(target) # {})
                          => Returns(TheOne(NameMatches(target)))

\* The SHORT of one instance is the container name of another: matchTarget
\* returns the other instance.
C20_Witness ==
    /\ ShortLenFound /\ MatchCalled
    /\ \E k \in InstIdx :
          /\ HasId(k) /\ ShortOf(k) = target
          /\ \E j \in InstIdx :
                j # k /\ instances[j].Container = target /\ Returns(j)

\* ---- start and stop ----

\* The container of the invocation was selected: resolved from the TARGET,
\* or derived from the workdir, found and accepted by the guard.
Selected ==
    /\ Invoked
    /\ \/ inv.form = "target" /\ inv.resolved.kind = "ok"
       \/ inv.form = "workdir" /\ inv.guard.called
          /\ inv.guard.result.kind = "ok"

CallsOf(op) == {k \in 1..Len(inv.calls) : inv.calls[k].op = op}

\* The containers the command worked on once it had selected one: those of
\* its start, with what another process did in the window after the listing.
Seen == Between([c |-> inv.pre], inv.container, inv.fault).c

RanBefore == Seen[inv.container].exists /\ Seen[inv.container].running

RuntimeUntouched == containers = Seen /\ volumes = inv.preVolumes

\* C21: `start` issues Start only after the container was selected and only
\* when it does not run, and on a running container it succeeds with no
\* Start call and no change; `stop` issues Stop only after selection and
\* only when the container runs, and on a stopped container it succeeds
\* with no Stop call and no change.
C21_StartStopNoOp ==
    /\ (Invoked /\ inv.cmd = "start")
       => /\ CallsOf("Start") # {} => Selected /\ ~RanBefore
          /\ (Selected /\ RanBefore)
               => inv.err = "none" /\ CallsOf("Start") = {} /\ RuntimeUntouched
          /\ (Selected /\ ~RanBefore)
               => \A k \in CallsOf("Start") : inv.calls[k].arg = inv.container
          /\ (Selected /\ ~RanBefore) => Cardinality(CallsOf("Start")) = 1
          /\ CallsOf("Stop") = {} /\ CallsOf("Remove") = {}
    /\ (Invoked /\ inv.cmd = "stop")
       => /\ CallsOf("Stop") # {} => Selected /\ RanBefore
          /\ (Selected /\ ~RanBefore)
               => inv.err = "none" /\ CallsOf("Stop") = {} /\ RuntimeUntouched
          /\ (Selected /\ RanBefore)
               => /\ Cardinality(CallsOf("Stop")) = 1
                  /\ \A k \in CallsOf("Stop") : inv.calls[k].arg = inv.container
          /\ CallsOf("Start") = {} /\ CallsOf("Remove") = {}

\* `start` by TARGET on a running container: success, nothing called.
C21_Witness ==
    /\ Invoked /\ inv.cmd = "start" /\ inv.form = "target"
    /\ Selected /\ RanBefore
    /\ inv.err = "none" /\ CallsOf("Start") = {} /\ RuntimeUntouched

\* ---- No container under the derived name ----

\* A no-TARGET invocation whose workdir was canonicalised and whose derived
\* container did not exist when it started.
DerivedMissing ==
    /\ WorkdirForm /\ inv.workdir # <<>>
    /\ inv.cmd \in {"start", "stop", "enter", "check", "rm"}
    /\ ~inv.pre[inv.container].exists

\* C22: in the no-TARGET form with no container under the derived name,
\* start, stop, enter and check fail with "container not found", rm
\* succeeds, and none of them calls requireManaged or the runtime: the
\* containers and the volumes, the derived volume included, are as before.
C22_NoContainerNoCall ==
    DerivedMissing
    => /\ inv.container
            = NamesFor(inv.workdir, DefaultContainerBase, DefaultVolumeBase).container
       /\ inv.cmd = "rm" => inv.err = "none"
       /\ inv.cmd # "rm" => inv.err = "ContainerNotFound"
       /\ ~inv.guard.called
       /\ inv.calls = <<>>
       /\ RuntimeUntouched

\* `rm --volume` for a workdir that has its volume but no container: the
\* volume stays.
C22_Witness ==
    /\ DerivedMissing /\ inv.cmd = "rm" /\ inv.opt = TRUE
    /\ NamesFor(inv.workdir, DefaultContainerBase, DefaultVolumeBase).volume
         \in volumes
    /\ inv.err = "none" /\ inv.calls = <<>>

\* ---- chooseBaseImage (SpecBase) ----

BaseChosen == matched.kind # "not-called"

FlagGiven == TrimSpace(inv.flagVal) # <<>>
ArgGiven == Len(inv.args) > 0

\* The value the precedence selects and where it comes from.
RawBase ==
    IF FlagGiven THEN TrimSpace(inv.flagVal)
    ELSE IF ArgGiven THEN TrimSpace(inv.args[1])
    ELSE TrimSpace(inv.cfg.DefaultBaseImage)
RawSource ==
    IF FlagGiven THEN "flag" ELSE IF ArgGiven THEN "arg" ELSE "config"

Aliases == inv.cfg.BaseImageAliases
IsAliasKey(x) == x \in DOMAIN Aliases

\* C23: chooseBaseImage fails when flag and argument are both given and
\* when the flag, the argument and the configured default are all empty;
\* when it succeeds the value comes from the flag if given, else from the
\* argument if given, else from the configured default, the source says
\* which, usedAlias tells whether that value is an alias key, and the result
\* is the alias's value (not resolved a second time) or the value itself.
C23_BaseImagePrecedence ==
    BaseChosen
    => /\ (FlagGiven /\ ArgGiven) => matched.kind = "SpecifiedTwice"
       /\ (~FlagGiven
           /\ (ArgGiven => TrimSpace(inv.args[1]) = <<>>)
           /\ TrimSpace(inv.cfg.DefaultBaseImage) = <<>>)
            => matched.kind = "NoBaseImage"
       /\ matched.kind = "ok"
            => /\ matched.source = RawSource
               /\ matched.usedAlias <=> IsAliasKey(RawBase)
               /\ matched.base = IF IsAliasKey(RawBase)
                                 THEN TrimSpace(Aliases[RawBase]) ELSE RawBase
               /\ matched.base # <<>>
       /\ matched.kind # "ok"
            => /\ matched.base = <<>> /\ matched.source = ""
               /\ ~matched.usedAlias
               /\ \/ FlagGiven /\ ArgGiven
                  \/ ~validateNonEmptyImageRef(RawBase)
                  \/ IsAliasKey(RawBase)
                     /\ ~validateNonEmptyImageRef(Aliases[RawBase])

\* The argument is an alias key whose value is itself an alias key: the
\* result is the first value, taken from the argument.
C23_Witness ==
    /\ BaseChosen /\ ~FlagGiven /\ ArgGiven
    /\ IsAliasKey(RawBase) /\ IsAliasKey(Aliases[RawBase])
    /\ matched.kind = "ok" /\ matched.source = "arg" /\ matched.usedAlias
    /\ matched.base = Aliases[RawBase]

\* ---- resolveEnvFileArgs (SpecEnv) ----

EnvResolved == matched.kind # "not-called"

\* The absolute path a given value names, and whether something is there.
Named(p) == Abs(expandUser(TrimSpace(p)))
Present(abs) == FsNode(abs).kind # "missing" \/ abs \in inv.os.files

FlagSet == inv.flagChanged
EnvSet == ~inv.flagChanged /\ TrimSpace(inv.os.env) # <<>>
XdgSet == TrimSpace(inv.os.xdg) # <<>>
XdgFile == xdgCandidate(TrimSpace(inv.os.xdg))

FromFile == {"flag", "env", "xdg", "home"}

\* C24: resolveEnvFileArgs takes the explicitly set flag, else
\* AI_SHELL_ENV_FILE, else the XDG file if present, else the home file if
\* present, else none; an explicitly set empty flag gives "disabled" with no
\* args whatever files exist; a flag or environment path that is not there
\* is an error, never replaced by a lower source; Args is ("--env-file",
\* Path) with an absolute Path exactly for the sources flag, env, xdg and
\* home, and empty otherwise.
C24_EnvFileOrder ==
    EnvResolved
    => /\ (FlagSet /\ inv.flagValue = <<>>)
            => matched = EnvFileWithout("disabled")
       /\ (FlagSet /\ TrimSpace(inv.flagValue) # <<>>)
            => IF Present(Named(inv.flagValue))
               THEN matched = EnvFileFound(Named(inv.flagValue), "flag")
               ELSE matched.kind = "EnvFileNotFound"
       /\ EnvSet
            => IF Present(Named(inv.os.env))
               THEN matched = EnvFileFound(Named(inv.os.env), "env")
               ELSE matched.kind = "EnvFileNotFound"
       /\ (~FlagSet /\ ~EnvSet)
            => /\ matched.kind = "ok"
               /\ matched.Source = "xdg" <=> XdgSet /\ Present(XdgFile)
               /\ matched.Source = "home"
                    <=> ~(XdgSet /\ Present(XdgFile)) /\ Present(homeCandidate)
               /\ matched.Source = "none"
                    <=> ~(XdgSet /\ Present(XdgFile)) /\ ~Present(homeCandidate)
               /\ matched.Source = "xdg" => matched.Path = XdgFile
               /\ matched.Source = "home" => matched.Path = homeCandidate
       /\ matched.kind = "ok"
            => /\ matched.Source \in FromFile \cup {"none", "disabled"}
               /\ matched.Source \in FromFile
                    <=> matched.Args = <<EnvFileFlag, matched.Path>>
               /\ matched.Source \in FromFile
                    => matched.Path # <<>> /\ Head(matched.Path) = "/"
                       /\ Present(matched.Path)
               /\ matched.Source \notin FromFile
                    => matched.Args = <<>> /\ matched.Path = <<>>
       /\ matched.kind # "ok"
            => matched.Args = <<>> /\ matched.Path = <<>> /\ matched.Source = ""

\* --env-file set to a missing path while AI_SHELL_ENV_FILE names an existing
\* file and both default files are present: an error.
C24_Witness ==
    /\ EnvResolved /\ FlagSet
    /\ inv.flagValue = <<"/", "g">>
    /\ Present(Named(inv.os.env)) /\ TrimSpace(inv.os.env) # <<>>
    /\ XdgSet /\ Present(XdgFile) /\ Present(homeCandidate)
    /\ matched.kind = "EnvFileNotFound" /\ matched.Args = <<>>

\* ---- Every invocation lists the runtime afresh ----

\* The managed containers of runtime state cs that can be inspected, and the
\* listing the lister owes for them.
LiveNames(cs, f) ==
    {n \in Names : cs[n].exists /\ Labelled(cs[n])
                   /\ f # [op |-> "inspect", name |-> n]}
LiveRecord(cs, n) ==
    [Workdir    |-> WorkBindSource(cs[n]),
     InstanceID |-> cs[n].labels.instance,
     Container  |-> n,
     Status     |-> IF cs[n].running THEN StatusRunning ELSE StatusExited,
     Image      |-> cs[n].image,
     Volume     |-> cs[n].labels.volume]
LiveListing(cs, f) ==
    CHOOSE l \in SeqsUpTo({LiveRecord(cs, n) : n \in LiveNames(cs, f)},
                          Cardinality(Names)) :
        /\ Len(l) = Cardinality(LiveNames(cs, f))
        /\ \A k \in 1..(Len(l) - 1) : StrLess(l[k].Container, l[k + 1].Container)

\* C25: whatever happened before, an invocation starts from the runtime as
\* it is when the process starts: a TARGET is resolved by matchTarget on the
\* listing of that runtime state (or answered "no managed containers" when
\* that listing is empty), and `ls` prints that listing.
C25_AnswersFromRuntimeAtCall ==
    [][(inv.cmd = "idle" /\ inv'.cmd # "idle")
       => /\ inv'.pre = containers
          /\ (inv'.form = "target" /\ TrimSpace(inv'.arg) # <<>>
              /\ ~PsFails(inv'.fault))
               => IF LiveNames(containers, inv'.fault) = {}
                  THEN inv'.resolved.kind = "NoManagedContainers"
                  ELSE inv'.resolved
                         = matchTarget(TrimSpace(inv'.arg),
                                       LiveListing(containers, inv'.fault))
          /\ (inv'.cmd = "ls" /\ ~PsFails(inv'.fault))
               => inv'.listed.insts = LiveListing(containers, inv'.fault)
          /\ inv'.cmd \in {"start", "stop", "enter", "check", "status", "rm", "up"}
               /\ inv'.form = "workdir"
               => ~inv'.listed.called /\ inv'.resolved = NotMatched]_vars

\* A TARGET is resolved to a container that another process put under the
\* name derived from /a, bound to /b.
C25_Witness ==
    /\ TargetForm /\ TargetArg = DefaultContainerBase
    /\ inv.resolved.kind = "ok"
    /\ inv.resolved.inst.Container = ContainerA
    /\ inv.resolved.inst.Workdir = WorkdirB
    /\ ~inv.pre[ContainerB].exists

\* ---- Order of the instance list (SpecMatch) ----

\* The instance list in every order.
Reorderings ==
    {[k \in InstIdx |-> instances[f[k]]] : f \in Permutations(InstIdx)}

\* C26: matchTarget on any reordering of the instance list gives the same
\* result: the same kind, the same instance, and for an ambiguous target the
\* same candidate lines.
C26_OrderOfInstancesIrrelevant ==
    MatchCalled
    => \A l \in Reorderings : matchTarget(target, l) = matched

\* An ambiguous target whose two candidates stand in the list in the
\* opposite of the printed order.
C26_Witness ==
    /\ MatchCalled /\ matched.kind = "Ambiguous"
    /\ Len(instances) = 2 /\ Len(matched.lines) = 2
    /\ matched.lines[1] # matched.lines[2]
    /\ matched.lines[1]
         = candLine([iid |-> instances[2].InstanceID,
                     container |-> instances[2].Container,
                     workdir |-> instances[2].Workdir])


(***************************************************************************)
(* C27: the TARGET form trusts the listing                                 *)
(***************************************************************************)

TargetMutator ==
    TargetForm /\ inv.cmd \in {"start", "stop", "enter", "rm"}

Mutations ==
    {k \in 1..Len(inv.calls) : inv.calls[k].op \in {"Start", "Stop", "Remove"}}

\* The selected container was replaced by an unlabelled one after the listing.
ReplacedAfterListing ==
    /\ TargetMutator /\ inv.resolved.kind = "ok"
    /\ inv.fault = ReplaceFault /\ inv.container = ReplaceFault.name

OkCall(op) ==
    \E k \in CallsOf(op) : inv.calls[k].arg = inv.container
                            /\ inv.calls[k].res = "ok"

\* C27: a start, stop, enter or rm by TARGET never calls requireManaged;
\* every Start, Stop and Remove it issues names the container of the
\* instance resolveTarget returned, which the listing of the same invocation
\* contains and which carried the managed label when the invocation began;
\* and when another process puts an unlabelled container under that name
\* after the listing, the command goes on unchecked: stop stops it, rm stops
\* and removes it, enter runs in it.
C27_TargetFormTrustsTheListing ==
    TargetMutator
    => /\ ~inv.guard.called
       /\ CallsOf("requireManaged") = {}
       /\ \A k \in Mutations :
             /\ inv.resolved.kind = "ok"
             /\ inv.calls[k].arg = inv.resolved.inst.Container
             /\ \E j \in 1..Len(Listed) : Listed[j] = inv.resolved.inst
             /\ inv.pre[inv.calls[k].arg].exists
             /\ Labelled(inv.pre[inv.calls[k].arg])
       /\ ReplacedAfterListing
          => /\ ~Labelled(Seen[inv.container])
             /\ inv.cmd = "stop"
                  => inv.err = "none" /\ OkCall("Stop")
                     /\ ~containers[inv.container].running
             /\ inv.cmd = "rm"
                  => OkCall("Stop") /\ OkCall("Remove")
                     /\ ~containers[inv.container].exists
             /\ inv.cmd = "enter" => inv.err = "none" /\ OkCall("Exec")
             /\ inv.cmd = "start" => inv.err = "none" /\ Mutations = {}

\* `rm TARGET` removed the unlabelled container that took the place of the
\* listed one.
C27_Witness ==
    /\ ReplacedAfterListing /\ inv.cmd = "rm"
    /\ Labelled(inv.pre[inv.container]) /\ ~Labelled(Seen[inv.container])
    /\ OkCall("Remove") /\ ~containers[inv.container].exists


(***************************************************************************)
(* C28: what `up` creates passes the guard and is listed                   *)
(***************************************************************************)

CreatedNames == NamesFor(inv.workdir, DefaultContainerBase, DefaultVolumeBase)

\* The instances the lister returns in the current state.
ListedNow == listManagedInstances(containers, NoFault).insts

\* The selection of a no-TARGET start, stop, enter or check run now with
\* workdir argument a, and the same for rm.
SelectNow(a) == selectContainer(World, "workdir", a, NoFault)
RmNow(a) == cmdRmWorkdir(World, a, FALSE, NoFault)

PassesGuard(o) ==
    /\ o.w.guard.called /\ o.w.guard.result.kind = "ok"
    /\ o.err = "none" /\ o.container = inv.container

\* C28: in the state `up` leaves when it has created the container for the
\* canonical workdir w, the container is the one named for w, carries the
\* labels of buildLabels and the bind mount w:/work; requireManaged on it
\* with w succeeds; a no-TARGET start, stop, enter, check or rm given w, or
\* the argument `up` was given, passes the guard; and the lister reports the
\* container with Workdir w, InstanceID(w) and the derived volume name.
C28_CreatedContainerIsManaged ==
    UpCreated
    => /\ inv.container = CreatedNames.container
       /\ containers[inv.container].labels
            = buildLabels(InstanceID(inv.workdir), CreatedNames.volume)
       /\ WorkBindSource(containers[inv.container]) = inv.workdir
       /\ requireManaged(InspectContainer(containers, inv.container, NoFault),
                         inv.container, inv.workdir).kind = "ok"
       /\ \A a \in {inv.arg, inv.workdir} :
             PassesGuard(SelectNow(a)) /\ RmNow(a).w.guard.result.kind = "ok"
                                       /\ RmNow(a).err = "none"
       /\ \E j \in 1..Len(ListedNow) :
             /\ ListedNow[j].Container = inv.container
             /\ ListedNow[j].Workdir = inv.workdir
             /\ ListedNow[j].InstanceID = InstanceID(inv.workdir)
             /\ ListedNow[j].Volume = CreatedNames.volume

\* `up --recreate` replaced a foreign container by one it created.
C28_Witness ==
    /\ UpCreated /\ inv.opt
    /\ inv.pre[inv.container].exists /\ ~Labelled(inv.pre[inv.container])
    /\ Labelled(containers[inv.container])
    /\ PassesGuard(SelectNow(inv.workdir))


(***************************************************************************)
(* C29: rm TARGET --volume without a volume label                          *)
(***************************************************************************)

RmTargetVolumeNoLabel ==
    /\ TargetForm /\ inv.cmd = "rm" /\ inv.opt
    /\ inv.resolved.kind = "ok"
    /\ TrimSpace(inv.resolved.inst.Volume) = <<>>

\* C29: `rm TARGET --volume` on an instance whose volume label is empty
\* returns the missing-label error after it has issued Stop and then Remove
\* for the container and nothing else: no volume is removed, and unless
\* the runtime refused the calls the container is gone although the
\* command failed.
C29_MissingVolumeLabelAfterRemoval ==
    RmTargetVolumeNoLabel
    => /\ inv.err = "MissingVolumeLabel"
       /\ Len(inv.calls) = 2
       /\ inv.calls[1].op = "Stop" /\ inv.calls[1].arg = inv.container
       /\ inv.calls[2].op = "Remove" /\ inv.calls[2].arg = inv.container
       /\ volumes = inv.preVolumes
       /\ inv.calls[2].res = "ok" <=> ~containers[inv.container].exists
       /\ inv.fault.op # "mutate"
            => /\ inv.calls[2].res = "ok"
               /\ inv.pre[inv.container].exists
               /\ containers # inv.pre

\* The command failed and the container it was given is gone.
C29_Witness ==
    /\ RmTargetVolumeNoLabel /\ inv.fault = NoFault
    /\ inv.err = "MissingVolumeLabel"
    /\ inv.pre[inv.container].exists /\ inv.pre[inv.container].running
    /\ ~containers[inv.container].exists


(***************************************************************************)
(* C30: nothing to resolve against                                         *)
(***************************************************************************)

\* A TARGET that is not blank was given to a command that resolves it.
TargetGiven == TargetForm /\ TargetArg # <<>>

QueryFailed == TargetGiven /\ PsFails(inv.fault)
NothingListed == TargetGiven /\ ~PsFails(inv.fault) /\ Len(Listed) = 0

\* C30: for a target that is not blank, a failing managed-label query makes
\* resolveTarget return the query's error, and an empty instance list makes
\* it return the error "no managed containers found", which is not what
\* matchTarget answers on an empty list; in both cases no instance is
\* returned, the command returns that error, and it issues no runtime call
\* and changes nothing.
C30_NoInstancesNoAction ==
    /\ QueryFailed => inv.resolved.kind = "ListFailed"
    /\ NothingListed
         => /\ inv.resolved.kind = "NoManagedContainers"
            /\ matchTarget(TargetArg, Listed).kind = "NotFound"
    /\ (QueryFailed \/ NothingListed)
         => /\ inv.resolved.inst = ZeroInstance
            /\ inv.err = inv.resolved.kind
            /\ inv.container = <<>>
            /\ Mutations = {} /\ inv.calls = <<>>
            /\ containers = inv.pre /\ volumes = inv.preVolumes

\* `rm` by TARGET while only an unlabelled container exists: the dedicated
\* error, and the container is still there.
C30_Witness ==
    /\ NothingListed /\ inv.cmd = "rm"
    /\ inv.resolved.kind = "NoManagedContainers"
    /\ \E n \in Names : inv.pre[n].exists /\ containers[n].exists

====
